---- MODULE Spec2Model ----
(***************************************************************************)
(* Research service (A2A task endpoint + MCP aggregator).                  *)
(*                                                                         *)
(* The task manager of src/app.py (TASK_STORE, message/send, tasks/get,    *)
(* tasks/cancel, the progress callback and the background coroutine        *)
(* process_research_task) and the aggregator loop of src/mcp_client.py     *)
(* (fetch_all_research_data) as one state machine.                         *)
(*                                                                         *)
(* Atomicity follows asyncio: a coroutine runs without interruption from   *)
(* one await that really suspends to the next.  The request handlers have  *)
(* no such await, so each is one action.  The background coroutine         *)
(* suspends while a worker invocation is outstanding (await mcp_func())    *)
(* and in emit_metric (await asyncio.sleep), so one action of the model    *)
(* is "the awaited thing completes and the coroutine runs on to its next   *)
(* suspension point".                                                      *)
(*                                                                         *)
(* A worker invocation is an input of the aggregator.  Its outcome is one  *)
(* of: a payload without an error field ("ok", with the number of metrics  *)
(* the basket's projection selects from it), a payload with an error field *)
(* ("error"), or an exception ("raise").  call_mcp_server turns what its   *)
(* try block raises into an error payload; an exception still escapes it   *)
(* from the statements its except clauses do not cover (the path check     *)
(* before the try, the cleanup in the finally block).  The normalizers and *)
(* the metric projection are total on the payloads the workers of this     *)
(* repository build, so they are modelled as not raising.                  *)
(*                                                                         *)
(* Tasks share nothing but TASK_STORE, where each is stored under its own  *)
(* id, and the clock; the model follows the tasks of TaskIds.              *)
(*                                                                         *)
(* Further components have their own variables and specification: the     *)
(* circuit-breaker registry of tests/mcp_reliability (BreakerSpec), the    *)
(* SEC EDGAR fetcher of the fundamentals worker with its retry loop and    *)
(* breaker (FetcherSpec), one tool call of a basket worker with its        *)
(* providers (WorkerSpec), the token bucket under the burst of             *)
(* test_stress.py (BucketSpec), the sliding-window limiter (WindowSpec),   *)
(* two worker processes that each hold their own SEC token bucket          *)
(* (ProcessesSpec), one subprocess conversation of call_mcp_server        *)
(* (TransportSpec), the worker processes of several invocations, each with *)
(* its own FetcherService (SpawningSpec), the daily quotas of the          *)
(* rate-limiter registry (MeteringSpec), the cache of the fundamentals     *)
(* worker (CacheSpec) and the batch loop of the stress harness             *)
(* (RunnerSpec).  PairSpec runs two tasks in the task service.  A step of  *)
(* one component leaves the variables of the others as they are.           *)
(***************************************************************************)
EXTENDS Integers, Sequences, FiniteSets, TLC

\* Task identifiers handed out by uuid4 in handle_message_send.
TaskIds == {"t1"}

\* Two tasks submitted to the same server process: both live in TASK_STORE
\* and share the clock.
PairIds == TaskIds \cup {"t2"}

\* The clock reading after which the two-task runs are not followed further.
MaxPairClock == 8

\* Number of metrics the projection of a basket emits from a payload that
\* carries the fields it selects.
MaxMetrics == 2

\* JSON-RPC error code "task not found".
TaskNotFound == 0 - 32001

\* The fixed basket order of fetch_all_research_data.
mcp_sequence == <<"fundamentals", "valuation", "volatility", "macro", "news", "sentiment">>

Baskets == {mcp_sequence[i] : i \in 1..Len(mcp_sequence)}

\* TaskStatus values.
SUBMITTED == "submitted"
WORKING == "working"
COMPLETED == "completed"
FAILED == "failed"
CANCELED == "canceled"

VARIABLES
    TASK_STORE,     \* task id -> Task record (the in-memory task store)
    agg,            \* task id -> frame of the task's background coroutine
    inflight,       \* task id -> set of worker invocations not yet returned
    now,            \* the clock: the value the next datetime.now() returns
    response,       \* the JSON-RPC response this step sent (NoResponse: none)
    cancelSnapshot  \* task id -> partial_metrics as they were when a cancel hit a WORKING task

\* The task service.
service == <<TASK_STORE, agg, inflight, now, response, cancelSnapshot>>

VARIABLES
    breakers,       \* server -> CircuitBreaker (the registry's breakers dict)
    monotonic,      \* the value the next time.monotonic() returns
    lastOp,         \* the last operation on a breaker: name, server, value returned, breaker before it, time
    streak,         \* server -> failures recorded since the last success or reset (up to failure_threshold)
    probeSuccesses  \* server -> successes recorded since the breaker last entered HALF_OPEN

\* The circuit-breaker registry.
registry == <<breakers, monotonic, lastOp, streak, probeSuccesses>>

VARIABLES
    sec_edgar,        \* the fetcher's "sec_edgar" CircuitBreaker
    company_tickers,  \* the fetcher's ticker -> CIK table: "None", "loaded" or "empty"
    fetches,          \* slot -> frame of a call of _fetch_with_retry
    started,          \* calls of _fetch_with_retry begun
    xbrl503,          \* every company-facts request so far was answered with HTTP 503
    factsFailures,    \* company-facts calls that were admitted and ended in an error
    lookupFailures    \* failures the fetch of the ticker table recorded on the breaker

\* The fetcher of the fundamentals worker (it reads the clock of the registry).
fetcher == <<sec_edgar, company_tickers, fetches, started, xbrl503, factsFailures,
             lookupFailures>>

VARIABLES
    tool_call,      \* the tool call of a basket worker that is running, or the last one
    rejecting       \* the breakers of the fundamentals fetcher that reject requests during the call

\* The basket worker.
worker == <<tool_call, rejecting>>

VARIABLES
    ticks,              \* the value the next time.monotonic() returns, in hundredths of a second
    limiters,           \* api -> TokenBucket (the limiters dict of the RateLimiterRegistry)
    test,               \* the frame of test_rate_limiter_respects_limits
    strict,             \* a SlidingWindowLimiter
    admissions,         \* the times at which strict admitted a request, in order
    last_slot,          \* the last call of strict.acquire(): time, deque before it, value returned
    _sec_rate_limiter,  \* worker process -> the TokenBucket of its FetcherService
    in_flight,          \* worker process -> SEC requests sent and not yet answered
    requested           \* worker process -> SEC requests sent since the process started

\* The rate limiters.
limiting == <<ticks, limiters, test, strict, admissions, last_slot, _sec_rate_limiter,
              in_flight, requested>>

VARIABLES
    conn            \* the frame of the call of call_mcp_server that is running, or of the last one

VARIABLES
    _fetcher_service,  \* worker invocation -> the FetcherService of its process (its pc "none": no process yet)
    uptime             \* the time since the server started, in hundredths of a second

\* The worker processes of successive and concurrent invocations.
spawning == <<_fetcher_service, uptime>>

VARIABLES
    quotas,         \* api -> DailyQuotaTracker (the quotas dict of the RateLimiterRegistry)
    today,          \* the calendar day time.strftime("%Y-%m-%d") returns (a day number)
    last_acquire    \* the last call of RateLimiterRegistry.acquire: api, value returned, used before it

\* The daily quotas of the rate-limiter registry.
metering == <<quotas, today, last_acquire>>

VARIABLES
    _cik_cache,           \* ticker -> CacheEntry
    _facts_cache,         \* cik -> CacheEntry
    _company_info_cache,  \* ticker -> CacheEntry
    wall,                 \* the value the next time.time() returns, in seconds
    last_get              \* the last lookup: cache, entry found, time, value returned

\* The CacheService of the fundamentals worker.
caching == <<_cik_cache, _facts_cache, _company_info_cache, wall, last_get>>

VARIABLES
    runner          \* the MCPTestRunner: its config and the frame of _test_batch

vars == <<service, registry, fetcher, worker, limiting, conn, spawning, metering, caching,
          runner>>

\* What a step of one component leaves alone.
offService == <<registry, fetcher, worker, limiting, conn, spawning, metering, caching, runner>>
offRegistry == <<service, fetcher, worker, limiting, conn, spawning, metering, caching, runner>>
offFetcher == <<service, breakers, lastOp, streak, probeSuccesses, worker, limiting, conn,
                spawning, metering, caching, runner>>
offWorker == <<service, registry, fetcher, limiting, conn, spawning, metering, caching, runner>>
offLimiting == <<service, registry, fetcher, worker, conn, spawning, metering, caching, runner>>
offTransport == <<service, registry, fetcher, worker, limiting, spawning, metering, caching, runner>>
offMetering == <<service, registry, fetcher, worker, limiting, conn, spawning, caching, runner>>
offCaching == <<service, registry, fetcher, worker, limiting, conn, spawning, metering, runner>>
offRunner == <<service, registry, fetcher, worker, limiting, conn, spawning, metering, caching>>
offSpawning == <<service, registry, fetcher, worker, limiting, conn, metering, caching, runner>>

----------------------------------------------------------------------------
\* Records

\* Task(id, status=SUBMITTED, partial_metrics=[], created_at=now, updated_at=now);
\* artifacts None is the empty sequence, error None is "".
NewTask(t, clock) ==
    [id |-> t, status |-> SUBMITTED, artifacts |-> <<>>, partial_metrics |-> <<>>,
     error |-> "", created_at |-> clock, updated_at |-> clock]

\* The frame of process_research_task / fetch_all_research_data.
\*   pc      : "none" (no task), "scheduled" (create_task done, not yet run),
\*             "await_call" (inside await mcp_func()), "await_sleep" (inside
\*             emit_metric's asyncio.sleep), "returned"
\*   idx     : position of the for loop in mcp_sequence
\*   site    : which await mcp_func() is outstanding: "first" (line 963),
\*             "retry" (line 968), "except_retry" (line 997)
\*   pending : metrics of the current basket still to be emitted
\*   metric_no : index of the next metric of the current basket
\*   calls   : outcomes of the invocations made so far for basket `basket`
\*   stored  : ordinal of the invocation whose result went into metrics[basket]
NoFrame ==
    [pc |-> "none", idx |-> 0, site |-> "first", pending |-> 0, metric_no |-> 0,
     sources_available |-> <<>>, sources_failed |-> <<>>,
     metrics |-> [b \in {} |-> 0], basket |-> "", calls |-> <<>>, stored |-> 0]

\* A worker invocation: the basket and the ordinal of the invocation.
Call(name, attempt) == [basket |-> name, attempt |-> attempt]

\* An entry of the metrics dict: a normalised payload ("data") or an error
\* object ("error"), and whether it carries retried: True.
Entry(kind, retried) == [kind |-> kind, retried |-> retried]

\* d[k] = v on a dict.
Put(d, k, v) == [x \in (DOMAIN d) \cup {k} |-> IF x = k THEN v ELSE d[x]]

\* Numbers of metrics a successful payload can make the projection emit.
\* news and sentiment always emit exactly one event (items_found or status);
\* the other projections emit one event per selected field that the payload
\* carries: a payload with none of them, or one with MaxMetrics of them.
MetricCounts(name) ==
    IF name \in {"news", "sentiment"} THEN {1} ELSE {0, MaxMetrics}

\* Outcomes of one worker invocation.
Outcomes(name) ==
    {[kind |-> "ok", n |-> n] : n \in MetricCounts(name)}
        \cup {[kind |-> "error", n |-> 0], [kind |-> "raise", n |-> 0]}

AllOutcomes == UNION {Outcomes(name) : name \in Baskets}

----------------------------------------------------------------------------
\* src/app.py

\* callback without its status test: an event is appended whatever the status.
callback_any_status(task, source, metric, clock) ==
    [task EXCEPT !.partial_metrics =
                     Append(@, [source |-> source, metric |-> metric, timestamp |-> clock]),
                 !.updated_at = clock + 1]

callback_stale(task, source, metric, clock) ==
    IF task.status = WORKING
    THEN [task EXCEPT !.partial_metrics =
                          Append(@, [source |-> source, metric |-> metric, timestamp |-> clock])]
    ELSE task

callback_prepend(task, source, metric, clock) ==
    IF task.status = WORKING
    THEN [task EXCEPT !.partial_metrics =
                          <<[source |-> source, metric |-> metric, timestamp |-> clock]>> \o @,
                      !.updated_at = clock + 1]
    ELSE task

\* create_progress_callback.callback: appends only while the task is WORKING.
\* It reads the clock twice (the entry's timestamp, then updated_at).
callback(task, source, metric, clock) ==
    IF task.status = WORKING
    THEN [task EXCEPT !.partial_metrics =
                          Append(@, [source |-> source, metric |-> metric, timestamp |-> clock]),
                      !.updated_at = clock + 1]
    ELSE task

\* Clock readings one call of callback makes.
callback_reads(task) == IF task.status = WORKING THEN 2 ELSE 0

\* process_research_task, lines 293-307: what happens to the task record when
\* fetch_all_research_data returns (fin = "ok") or an exception escapes it.
process_result(task, fin, data, clock) ==
    IF fin = "ok"
    THEN [task EXCEPT !.artifacts = <<data>>, !.status = COMPLETED, !.updated_at = clock]
    ELSE [task EXCEPT !.status = FAILED, !.error = "exception", !.updated_at = clock]

----------------------------------------------------------------------------
\* src/mcp_client.py, fetch_all_research_data.  A world w is the part of the
\* state one task's coroutine works on: [task, frame, inflight, clock].

\* An invocation whose worker never answers and that no deadline ends.
StartCall_lost(fl, call) == fl

\* await mcp_func(): the invocation is outstanding until the worker returns.
StartCall(fl, call) == fl \cup {call}

\* The final data package (the fields the task manager's clients rely on).
Artifact(f) ==
    [sources_available |-> f.sources_available,
     sources_failed |-> f.sources_failed,
     metrics |-> f.metrics]

\* emit_metric: the callback is called at once, then the coroutine sleeps.
emit_metric(w, metric) ==
    [w EXCEPT !.task = callback(@, mcp_sequence[w.frame.idx], metric, w.clock),
              !.clock = @ + callback_reads(w.task),
              !.frame.pc = "await_sleep"]

\* The loop going on without awaiting: the next basket's first invocation is
\* started together with the one after it.
NextIteration_ahead(w, fin) ==
    IF w.frame.idx + 1 < Len(mcp_sequence)
    THEN [w EXCEPT !.frame.idx = @ + 1,
                   !.frame.site = "first",
                   !.frame.pc = "await_call",
                   !.frame.pending = 0,
                   !.frame.metric_no = 0,
                   !.inflight = @ \cup {Call(mcp_sequence[w.frame.idx + 1], 1),
                                        Call(mcp_sequence[w.frame.idx + 2], 1)}]
    ELSE IF w.frame.idx < Len(mcp_sequence)
    THEN [w EXCEPT !.frame.idx = @ + 1,
                   !.frame.site = "first",
                   !.frame.pc = "await_call",
                   !.frame.pending = 0,
                   !.frame.metric_no = 0,
                   !.inflight = @ \cup {Call(mcp_sequence[w.frame.idx + 1], 1)}]
    ELSE [w EXCEPT !.frame.pc = "returned",
                   !.frame.pending = 0,
                   !.frame.metric_no = 0,
                   !.task = process_result(@, fin, Artifact(w.frame), w.clock),
                   !.clock = @ + 1]

\* End of one loop iteration: the next basket's first invocation, or, after
\* the last basket, the post-processing and the return into
\* process_research_task.
NextIteration(w, fin) ==
    IF w.frame.idx < Len(mcp_sequence)
    THEN [w EXCEPT !.frame.idx = @ + 1,
                   !.frame.site = "first",
                   !.frame.pc = "await_call",
                   !.frame.pending = 0,
                   !.frame.metric_no = 0,
                   !.inflight = StartCall(@, Call(mcp_sequence[w.frame.idx + 1], 1))]
    ELSE [w EXCEPT !.frame.pc = "returned",
                   !.frame.pending = 0,
                   !.frame.metric_no = 0,
                   !.task = process_result(@, fin, Artifact(w.frame), w.clock),
                   !.clock = @ + 1]

\* _extract_and_emit_metrics from its start; with nothing to emit the loop
\* goes on.
ExtractAndEmit(w, n, fin) ==
    IF n = 0
    THEN NextIteration(w, fin)
    ELSE emit_metric([w EXCEPT !.frame.metric_no = 2, !.frame.pending = n - 1], 1)

\* sources_available.append(name); metrics[name] = result; then emit.
RecordAvailable(w, n, fin) ==
    LET name == mcp_sequence[w.frame.idx]
        w1 == [w EXCEPT !.frame.sources_available = Append(@, name),
                        !.frame.metrics = Put(@, name, Entry("data", FALSE)),
                        !.frame.stored = Len(w.frame.calls)]
    IN  ExtractAndEmit(w1, n, fin)

\* The failure branch without its sources_failed.append(name).
RecordFailed_unlisted(w, fin) ==
    LET name == mcp_sequence[w.frame.idx]
        w1 == [w EXCEPT !.frame.metrics = Put(@, name, Entry("error", TRUE)),
                        !.frame.stored = Len(w.frame.calls)]
    IN  NextIteration(w1, fin)

\* sources_failed.append(name); metrics[name] = {error..., "retried": True}.
RecordFailed(w, fin) ==
    LET name == mcp_sequence[w.frame.idx]
        w1 == [w EXCEPT !.frame.sources_failed = Append(@, name),
                        !.frame.metrics = Put(@, name, Entry("error", TRUE)),
                        !.frame.stored = Len(w.frame.calls)]
    IN  NextIteration(w1, fin)

\* One more await mcp_func() for the same basket, at the given site.
Reinvoke(w, site) ==
    [w EXCEPT !.frame.site = site,
              !.frame.pc = "await_call",
              !.inflight = StartCall(@, Call(mcp_sequence[w.frame.idx], Len(w.frame.calls) + 1))]

\* The loop body without the inner try: an exception of the invocation made
\* in the except branch leaves fetch_all_research_data, and
\* process_research_task marks the task FAILED.
AfterCall_fatal(w, out, fin) ==
    CASE w.frame.site = "first" ->
            IF out.kind = "ok" THEN RecordAvailable(w, out.n, fin)
            ELSE IF out.kind = "error" THEN Reinvoke(w, "retry")
            ELSE Reinvoke(w, "except_retry")
      [] w.frame.site = "retry" ->
            IF out.kind = "ok" THEN RecordAvailable(w, out.n, fin)
            ELSE IF out.kind = "error" THEN RecordFailed(w, fin)
            ELSE Reinvoke(w, "except_retry")
      [] OTHER ->
            IF out.kind = "ok" THEN RecordAvailable(w, out.n, fin)
            ELSE IF out.kind = "error" THEN RecordFailed(w, fin)
            ELSE [w EXCEPT !.frame.pc = "returned",
                           !.task = process_result(@, "raise", Artifact(w.frame), w.clock),
                           !.clock = @ + 1]

\* The loop body from the point where an awaited mcp_func() completes with
\* outcome out (w.frame.calls already holds out), lines 963-1014.
AfterCall(w, out, fin) ==
    CASE w.frame.site = "first" ->
            IF out.kind = "ok" THEN RecordAvailable(w, out.n, fin)
            ELSE IF out.kind = "error" THEN Reinvoke(w, "retry")
            ELSE Reinvoke(w, "except_retry")
      [] w.frame.site = "retry" ->
            IF out.kind = "ok" THEN RecordAvailable(w, out.n, fin)
            ELSE IF out.kind = "error" THEN RecordFailed(w, fin)
            ELSE Reinvoke(w, "except_retry")
      [] OTHER ->
            IF out.kind = "ok" THEN RecordAvailable(w, out.n, fin)
            ELSE RecordFailed(w, fin)

----------------------------------------------------------------------------
\* Circuit breaker and registry (tests/mcp_reliability/circuit_breaker.py).
\* The fetcher of the fundamentals worker carries the same class, without
\* force_open and force_close.  Every method runs under the breaker's lock,
\* so each is one step.  Times are whole seconds.

\* CircuitState values.
CLOSED == "closed"
OPEN == "open"
HALF_OPEN == "half_open"

\* CircuitBreakerConfig defaults.
failure_threshold == 5
success_threshold == 3
half_open_timeout == 30

\* The servers the registry creates breakers for.
Servers ==
    {"fundamentals-basket", "valuation-basket", "volatility-basket",
     "macro-basket", "news-basket", "sentiment-basket"}

\* The servers whose breaker the harness drives in the model.
Exercised == {"fundamentals-basket"}

\* Number of monotonic advances followed, and the length of one advance.
MaxTicks == 7
Delay == half_open_timeout \div 3

\* last_failure_time = None.  The code tests the field for truth, so None
\* and a reading of 0.0 are the same to it; the monotonic starts above 0.
NoTime == 0

Max(a, b) == IF a >= b THEN a ELSE b
Min(a, b) == IF a <= b THEN a ELSE b

\* CircuitBreakerConfig(), the configuration the registry shares out.
DefaultConfig ==
    [failure_threshold |-> failure_threshold, success_threshold |-> success_threshold,
     half_open_timeout |-> half_open_timeout]

\* A breaker as its constructor leaves it at time t.
NewBreaker(config, t) ==
    [config |-> config, state |-> CLOSED, failure_count |-> 0, success_count |-> 0,
     last_failure_time |-> NoTime, last_state_change |-> t]

_transition_keep_successes(b, new_state, t) ==
    IF b.state # new_state
    THEN LET b1 == [b EXCEPT !.state = new_state, !.last_state_change = t]
         IN  IF new_state = CLOSED
             THEN [b1 EXCEPT !.failure_count = 0, !.success_count = 0]
             ELSE b1
    ELSE b

\* CircuitBreaker._transition at time t.
_transition(b, new_state, t) ==
    IF b.state # new_state
    THEN LET b1 == [b EXCEPT !.state = new_state, !.last_state_change = t]
         IN  IF new_state = CLOSED
             THEN [b1 EXCEPT !.failure_count = 0, !.success_count = 0]
             ELSE IF new_state = HALF_OPEN
             THEN [b1 EXCEPT !.success_count = 0]
             ELSE b1
    ELSE b

allow_request_late(b, t) ==
    IF b.state = CLOSED THEN [breaker |-> b, allowed |-> TRUE]
    ELSE IF b.state = OPEN
    THEN IF b.last_failure_time # NoTime /\ t - b.last_failure_time > b.config.half_open_timeout
         THEN [breaker |-> _transition(b, HALF_OPEN, t), allowed |-> TRUE]
         ELSE [breaker |-> b, allowed |-> FALSE]
    ELSE [breaker |-> b, allowed |-> TRUE]

\* CircuitBreaker.allow_request at time t: the breaker afterwards and the
\* value returned.
allow_request(b, t) ==
    IF b.state = CLOSED THEN [breaker |-> b, allowed |-> TRUE]
    ELSE IF b.state = OPEN
    THEN IF b.last_failure_time # NoTime /\ t - b.last_failure_time >= b.config.half_open_timeout
         THEN [breaker |-> _transition(b, HALF_OPEN, t), allowed |-> TRUE]
         ELSE [breaker |-> b, allowed |-> FALSE]
    ELSE [breaker |-> b, allowed |-> TRUE]

record_success_clears(b, t) ==
    IF b.state = HALF_OPEN
    THEN LET b1 == [b EXCEPT !.success_count = @ + 1]
         IN  IF b1.success_count >= b.config.success_threshold
             THEN _transition(b1, CLOSED, t)
             ELSE b1
    ELSE IF b.state = CLOSED
    THEN [b EXCEPT !.failure_count = 0]
    ELSE b

\* CircuitBreaker.record_success at time t.
record_success(b, t) ==
    IF b.state = HALF_OPEN
    THEN LET b1 == [b EXCEPT !.success_count = @ + 1]
         IN  IF b1.success_count >= b.config.success_threshold
             THEN _transition(b1, CLOSED, t)
             ELSE b1
    ELSE IF b.state = CLOSED
    THEN [b EXCEPT !.failure_count = Max(0, @ - 1)]
    ELSE b

record_failure_above(b, t) ==
    LET b0 == [b EXCEPT !.last_failure_time = t]
    IN  IF b0.state = CLOSED
        THEN LET b1 == [b0 EXCEPT !.failure_count = @ + 1]
             IN  IF b1.failure_count > b.config.failure_threshold
                 THEN _transition(b1, OPEN, t)
                 ELSE b1
        ELSE IF b0.state = HALF_OPEN
        THEN _transition(b0, OPEN, t)
        ELSE b0

\* CircuitBreaker.record_failure at time t.
record_failure(b, t) ==
    LET b0 == [b EXCEPT !.last_failure_time = t]
    IN  IF b0.state = CLOSED
        THEN LET b1 == [b0 EXCEPT !.failure_count = @ + 1]
             IN  IF b1.failure_count >= b.config.failure_threshold
                 THEN _transition(b1, OPEN, t)
                 ELSE b1
        ELSE IF b0.state = HALF_OPEN
        THEN _transition(b0, OPEN, t)
        ELSE b0

\* CircuitBreaker.force_open and force_close at time t.
force_open(b, t) == [_transition(b, OPEN, t) EXCEPT !.last_failure_time = t]

force_close(b, t) == _transition(b, CLOSED, t)

\* CircuitBreakerRegistry.open_breakers.
open_breakers(bs) == {s \in DOMAIN bs : bs[s].state = OPEN}

\* No operation on a breaker yet.
NoOp == [op |-> "none", server |-> "", allowed |-> FALSE, before |-> NewBreaker(DefaultConfig, 0), at |-> 0]

BreakerInit ==
    /\ monotonic = 1
    /\ breakers = [s \in Servers |-> NewBreaker(DefaultConfig, monotonic)]
    /\ lastOp = NoOp
    /\ streak = [s \in Servers |-> 0]
    /\ probeSuccesses = [s \in Servers |-> 0]

----------------------------------------------------------------------------
\* FetcherService of the fundamentals worker
\* (mcp-servers/fundamentals-basket/services/fetcher.py): the SEC EDGAR
\* requests of one worker process, which share the "sec_edgar" breaker.  The
\* worker fetches the ticker -> CIK table once and company facts (XBRL) per
\* ticker.  A call suspends while it waits for the rate limiter and the
\* reply, and while it sleeps between attempts; calls of concurrent tool
\* invocations interleave at these points.

\* config.py
RETRY_MAX_ATTEMPTS == 3
RETRY_BASE_DELAY == 1
RETRY_EXPONENTIAL_BASE == 2
RETRY_STATUS_CODES == {429, 500, 502, 503, 504}
SEC_CB_FAILURE_THRESHOLD == 5
SEC_CB_SUCCESS_THRESHOLD == 3
SEC_CB_HALF_OPEN_TIMEOUT == 30

SecConfig ==
    [failure_threshold |-> SEC_CB_FAILURE_THRESHOLD,
     success_threshold |-> SEC_CB_SUCCESS_THRESHOLD,
     half_open_timeout |-> SEC_CB_HALF_OPEN_TIMEOUT]

\* Calls of _fetch_with_retry followed at a time, and calls begun in all.
Slots == {1}
MaxFetches == 7

\* The last instant at which a pause may end.
MaxUptime == 50

\* What the endpoint (or the rate limiter in front of it) answers to one
\* attempt: an HTTP status with a body that parses or not, a timeout, or
\* no token within the limiter's 5 seconds.
Replies ==
    {[kind |-> "status", code |-> c, json |-> TRUE] : c \in {200, 404, 429, 503}}
    \cup {[kind |-> "status", code |-> 200, json |-> FALSE],
          [kind |-> "timeout", code |-> 0, json |-> FALSE],
          [kind |-> "rate_limit", code |-> 0, json |-> FALSE]}

\* The frame of one call: where it is, the attempt it is in, and what it has
\* done (tokens taken from the rate limiter, requests sent and what each
\* was answered with -- the status code, 0 for a timeout --, delays slept,
\* failures recorded, how it ended and the retry_after of the error raised).
IdleFetch ==
    [pc |-> "idle", endpoint |-> "", attempt |-> 0, acquired |-> 0, requests |-> 0,
     statuses |-> <<>>, slept |-> <<>>, wake |-> 0, failures |-> 0, result |-> "",
     retry_after |-> 0]

delay_constant(attempt) == RETRY_BASE_DELAY

\* delay = RETRY_BASE_DELAY * (RETRY_EXPONENTIAL_BASE ** attempt)
delay(attempt) == RETRY_BASE_DELAY * RETRY_EXPONENTIAL_BASE ^ attempt

\* await asyncio.sleep(delay); continue
sleep_and_continue(f, t) ==
    [f EXCEPT !.pc = "sleep", !.wake = t + delay(f.attempt),
              !.slept = Append(@, delay(f.attempt))]

\* The call ends by raising error.
raise(f, error) == [f EXCEPT !.pc = "idle", !.result = error]

CircuitOpenError_after_acquire(f, b) ==
    [raise(f, "CircuitOpenError") EXCEPT !.retry_after = b.config.half_open_timeout,
                                         !.acquired = 1]

\* raise CircuitOpenError(source, circuit_breaker.config.half_open_timeout),
\* before the loop.
CircuitOpenError(f, b) ==
    [raise(f, "CircuitOpenError") EXCEPT !.retry_after = b.config.half_open_timeout]

\* raise RateLimitError(source, 1.0): no token within the limiter's timeout.
RateLimitError(f) == [raise(f, "RateLimitError") EXCEPT !.retry_after = 1]

\* response = await client.get(...) after rate_limiter.acquire_async
\* returned True: a token is gone and a request was sent.
sent(f, reply) ==
    [f EXCEPT !.acquired = @ + 1, !.requests = @ + 1,
              !.statuses = Append(@, reply.code)]

\* circuit_breaker.record_failure(last_error) inside the call.
failed(f) == [f EXCEPT !.failures = @ + 1]

on_retryable_status_recorded(f, b, t) ==
    IF f.attempt < RETRY_MAX_ATTEMPTS - 1
    THEN [frame |-> sleep_and_continue(failed(f), t), breaker |-> record_failure(b, t)]
    ELSE [frame |-> raise(failed(f), "HTTPStatusError"), breaker |-> record_failure(b, t)]

\* A reply whose status is in RETRY_STATUS_CODES: sleep and go round while
\* attempts remain; on the last attempt raise_for_status() raises, the
\* handler records the failure and re-raises.
on_retryable_status(f, b, t) ==
    IF f.attempt < RETRY_MAX_ATTEMPTS - 1
    THEN [frame |-> sleep_and_continue(f, t), breaker |-> b]
    ELSE [frame |-> raise(failed(f), "HTTPStatusError"), breaker |-> record_failure(b, t)]

\* One round of the loop of _fetch_with_retry from the reply to the next
\* suspension or the end of the call: the frame and the breaker afterwards.
_fetch_with_retry(f0, b, reply, t) ==
    LET f == IF reply.kind = "rate_limit" THEN f0 ELSE sent(f0, reply)
    IN  CASE reply.kind = "rate_limit" ->
               [frame |-> RateLimitError(failed(f)), breaker |-> record_failure(b, t)]
          [] reply.kind = "timeout" ->
               IF f.attempt < RETRY_MAX_ATTEMPTS - 1
               THEN [frame |-> sleep_and_continue(failed(f), t), breaker |-> record_failure(b, t)]
               ELSE [frame |-> raise(failed(f), "APITimeoutError"), breaker |-> record_failure(b, t)]
          [] reply.kind = "status" /\ reply.code \in RETRY_STATUS_CODES ->
               on_retryable_status(f, b, t)
          [] reply.kind = "status" /\ reply.code >= 400 /\ reply.code \notin RETRY_STATUS_CODES ->
               [frame |-> raise(failed(f), "HTTPStatusError"), breaker |-> record_failure(b, t)]
          [] OTHER ->
               IF reply.json
               THEN [frame |-> [f EXCEPT !.pc = "idle", !.result = "data"],
                     breaker |-> record_success(b, t)]
               ELSE [frame |-> raise(failed(f), "JSONDecodeError"), breaker |-> record_failure(b, t)]

FetcherInit ==
    /\ sec_edgar = NewBreaker(SecConfig, monotonic)
    /\ company_tickers = "None"
    /\ fetches = [c \in Slots |-> IdleFetch]
    /\ started = 0
    /\ xbrl503 = TRUE
    /\ factsFailures = 0
    /\ lookupFailures = 0

----------------------------------------------------------------------------
\* Basket workers: the tools of the fundamentals worker
\* (mcp-servers/fundamentals-basket/services/orchestrator.py) and of the
\* valuation worker (mcp-servers/valuation-basket/server.py), one tool call
\* at a time.  A provider is consulted when the tool calls its fetch
\* function (which the fundamentals worker does not do for what its cache
\* holds); the fetch answers with
\* a usable result or fails (an error result or an exception, which the
\* tools treat alike).  A fetch of the fundamentals worker fails at once
\* when the breaker of its provider rejects the request.

Tools ==
    {"get_sec_fundamentals", "get_all_sources_fundamentals",
     "get_full_valuation_basket", "get_all_sources_valuation"}

FundamentalsTools == {"get_sec_fundamentals", "get_all_sources_fundamentals"}

\* The breakers of the fundamentals worker's fetcher.
FetcherBreakers == {"sec_edgar", "yahoo_finance"}

\* A payload: whether it has an "error" key, its "sources" map (a set of
\* entries: the key and the entry's "source" field), and its own "source".
Payload(error, sources, source) == [error |-> error, sources |-> sources, source |-> source]

NoPayload == Payload(FALSE, {}, "")

SourceEntry(key, source) == [key |-> key, source |-> source]

\* No tool call is running.
IdleCall ==
    [tool |-> "", pc |-> "idle", cached |-> {}, lookup |-> "idle", facts |-> "idle", quote |-> "idle",
     refetch |-> "idle", overview |-> "idle", consulted |-> <<>>, payload |-> NoPayload]

\* The tool returns payload p.
return(c, p) == [c EXCEPT !.pc = "done", !.payload = p]

\* The tool calls the fetch function of a provider.
consult(c, field, provider) ==
    [c EXCEPT ![field] = "fetch", !.consulted = Append(@, provider)]

\* The SEC tier of the fundamentals worker has failed: no CIK, or no facts.
sec_failed(c) == c.lookup = "none" \/ c.facts = "failed"

_get_minimal_fallback == Payload(FALSE, {}, "Minimal Fallback")

get_market_average_defaults == Payload(FALSE, {}, "Market Averages (estimated)")

after_sec_no_quote(c) ==
    IF c.facts = "ok" THEN return(c, Payload(FALSE, {}, "SEC EDGAR XBRL"))
    ELSE IF sec_failed(c) THEN return(c, _get_minimal_fallback)
    ELSE c

\* get_sec_fundamentals_basket from the point where something it awaited
\* has answered to its next await or its return.
get_sec_fundamentals_basket(c) ==
    IF c.facts = "ok" THEN return(c, Payload(FALSE, {}, "SEC EDGAR XBRL"))
    ELSE IF sec_failed(c) /\ c.quote = "idle" THEN consult(c, "quote", "quote_service")
    ELSE IF c.quote = "ok" THEN return(c, Payload(FALSE, {}, "Yahoo Finance"))
    ELSE IF c.quote = "failed" THEN return(c, _get_minimal_fallback)
    ELSE c

yahoo_fallback_never(c) == FALSE

\* get_all_sources_fundamentals fetches the quote service a second time,
\* for the core metrics, when SEC failed and the quote service answered.
yahoo_fallback(c) == sec_failed(c) /\ c.quote = "ok"

\* get_all_sources_fundamentals once both gathered coroutines have ended.
get_all_sources_fundamentals(c) ==
    IF (c.facts = "ok" \/ sec_failed(c)) /\ c.quote \in {"ok", "failed"}
    THEN IF yahoo_fallback(c) /\ c.refetch = "idle"
         THEN consult(c, "refetch", "quote_service")
         ELSE IF c.refetch = "fetch" THEN c
         ELSE return(c, Payload(FALSE,
                 (IF ~sec_failed(c) THEN {SourceEntry("sec_edgar", "SEC EDGAR XBRL")} ELSE {})
                 \cup (IF c.quote = "ok" /\ (~sec_failed(c) \/ c.refetch = "ok")
                       THEN {SourceEntry("yahoo_finance", "Yahoo Finance")} ELSE {}),
                 "fundamentals-basket"))
    ELSE c

\* get_full_valuation_basket.
get_full_valuation_basket(c) ==
    IF c.quote = "ok" THEN return(c, Payload(FALSE, {}, "Yahoo Finance (yfinance)"))
    ELSE IF c.quote = "failed" /\ c.overview = "idle"
    THEN consult(c, "overview", "overview_service")
    ELSE IF c.overview = "ok" THEN return(c, Payload(FALSE, {}, "Alpha Vantage (fallback)"))
    ELSE IF c.overview = "failed" THEN return(c, get_market_average_defaults)
    ELSE c

\* get_all_sources_valuation.
get_all_sources_valuation(c) ==
    IF c.quote = "ok"
    THEN return(c, Payload(FALSE, {SourceEntry("yahoo_finance", "Yahoo Finance")},
                           "valuation-basket"))
    ELSE IF c.quote = "failed" /\ c.overview = "idle"
    THEN consult(c, "overview", "overview_service")
    ELSE IF c.overview \in {"ok", "failed"}
    THEN return(c, Payload(FALSE,
                           IF c.overview = "ok"
                           THEN {SourceEntry("alpha_vantage", "Alpha Vantage")} ELSE {},
                           "valuation-basket"))
    ELSE c

\* The running tool goes on after an answer.
resume(c) ==
    CASE c.tool = "get_sec_fundamentals" -> get_sec_fundamentals_basket(c)
      [] c.tool = "get_all_sources_fundamentals" -> get_all_sources_fundamentals(c)
      [] c.tool = "get_full_valuation_basket" -> get_full_valuation_basket(c)
      [] OTHER -> get_all_sources_valuation(c)

\* _get_facts_with_cache: the cached facts, or the fetch.
_get_facts_with_cache(c) ==
    IF "facts" \in c.cached THEN [c EXCEPT !.facts = "ok"] ELSE consult(c, "facts", "xbrl")

\* _get_cik_with_cache and, with a CIK, what follows it.
_get_cik_with_cache(c) ==
    IF "cik" \in c.cached
    THEN _get_facts_with_cache([c EXCEPT !.lookup = "match"])
    ELSE consult(c, "lookup", "identifier_lookup")

\* The tool starts, with these entries in the cache: up to its first await
\* that suspends.  gather starts the SEC coroutine, then the Yahoo one.
start(tool, cached) ==
    LET c == [IdleCall EXCEPT !.tool = tool, !.pc = "running", !.cached = cached]
    IN  CASE tool = "get_sec_fundamentals" -> resume(_get_cik_with_cache(c))
          [] tool = "get_all_sources_fundamentals" ->
                consult(_get_cik_with_cache(c), "quote", "quote_service")
          [] OTHER -> consult(c, "quote", "quote_service")

\* The aggregator counts an invocation as failed when the payload is a
\* dict with an "error" key.
is_failure(p) == p.error

WorkerInit ==
    /\ tool_call = IdleCall
    /\ rejecting = {}

----------------------------------------------------------------------------
\* Rate limiters (tests/mcp_reliability/rate_limiter.py).  TokenBucket is
\* also, line for line, the class of that name in
\* mcp-servers/fundamentals-basket/services/fetcher.py, of which every
\* fundamentals worker process holds one for SEC EDGAR.
\*
\* time.monotonic() is counted in hundredths of a second and the float
\* tokens of a bucket in tenths of a token, so that a bucket of rate 10/s
\* gains one tenth per tick and no rounding occurs.

\* Clock ticks per second, and parts of a token.
Hz == 100
PerToken == 10

\* config.py: SEC EDGAR, 10 requests per second.
SEC_RATE_LIMIT_REQUESTS == 10

\* test_rate_limiter_respects_limits: the calls it makes, the timeout it
\* gives each (0.1 s), and the number it tolerates.
TestCalls == 20
TestTimeout == Hz \div 10
TestTolerance == 12

\* asyncio.sleep(d) returns after d, or up to this many ticks later.
MaxOvershoot == 2

\* The sliding-window limiter that is followed: its max_requests and its
\* window_seconds (in ticks), the admissions followed and the time they are
\* followed for.
MaxRequests == 2
WindowTicks == 3
MaxAdmissions == 5
MaxWindowClock == 9

\* Worker processes that run at the same time, the requests they start and
\* the tenths of a second they are followed for.
Procs == {1, 2}
MaxStarted == 12
MaxTenths == 2

\* TokenBucket(rate, capacity) constructed at t: __post_init__.
TokenBucket(rate, capacity, t) ==
    [rate |-> rate, capacity |-> capacity, tokens |-> capacity * PerToken,
     last_update |-> t]

_refill_unbounded(b, t) ==
    [b EXCEPT !.tokens = b.tokens + ((t - b.last_update) * b.rate * PerToken) \div Hz,
              !.last_update = t]

\* self.tokens = min(self.capacity, self.tokens + elapsed * self.rate)
_refill(b, t) ==
    [b EXCEPT !.tokens = Min(b.capacity * PerToken,
                             b.tokens + ((t - b.last_update) * b.rate * PerToken) \div Hz),
              !.last_update = t]

\* TokenBucket.acquire(tokens): the bucket afterwards and the value returned.
acquire(b, tokens, t) ==
    LET r == _refill(b, t)
    IN  IF r.tokens >= tokens * PerToken
        THEN [bucket |-> [r EXCEPT !.tokens = @ - tokens * PerToken], ok |-> TRUE]
        ELSE [bucket |-> r, ok |-> FALSE]

\* max(0.01, min(0.1, (tokens - self.tokens) / self.rate)), in ticks.
wait_time(b, tokens) ==
    Max(Hz \div 100,
        Min(Hz \div 10, ((tokens * PerToken - b.tokens) * Hz) \div (b.rate * PerToken)))

\* The frame of a call of acquire_async.
IdleAcquire == [pc |-> "idle", start |-> 0, wake |-> 0, result |-> FALSE]

\* TokenBucket.acquire_async(tokens, timeout) from the test of its while
\* loop at time t to its next sleep or its return: the frame and the
\* bucket afterwards.
acquire_async(f, b, tokens, timeout, t) ==
    IF t - f.start < timeout
    THEN LET a == acquire(b, tokens, t)
         IN  IF a.ok
             THEN [frame |-> [f EXCEPT !.pc = "idle", !.result = TRUE], bucket |-> a.bucket]
             ELSE [frame |-> [f EXCEPT !.pc = "sleep",
                                       !.wake = t + wait_time(a.bucket, tokens)],
                   bucket |-> a.bucket]
    ELSE [frame |-> [f EXCEPT !.pc = "idle", !.result = FALSE], bucket |-> b]

\* SlidingWindowLimiter(max_requests, window_seconds): _requests is the
\* deque of admission times, oldest first.
SlidingWindowLimiter(max_requests, window_seconds) ==
    [max_requests |-> max_requests, window_seconds |-> window_seconds,
     _requests |-> <<>>]

RECURSIVE popleft_while(_, _)
\* while self._requests and self._requests[0] < cutoff: popleft()
popleft_while(q, cutoff) ==
    IF q # <<>> /\ q[1] < cutoff THEN popleft_while(Tail(q), cutoff) ELSE q

RECURSIVE popleft_through(_, _)
popleft_through(q, cutoff) ==
    IF q # <<>> /\ q[1] <= cutoff THEN popleft_through(Tail(q), cutoff) ELSE q

_cleanup_inclusive(w, t) ==
    [w EXCEPT !._requests = popleft_through(@, t - w.window_seconds)]

\* SlidingWindowLimiter._cleanup at time t.
_cleanup(w, t) ==
    [w EXCEPT !._requests = popleft_while(@, t - w.window_seconds)]

\* SlidingWindowLimiter.acquire at time t: the limiter afterwards and the
\* value returned.
acquire_slot(w, t) ==
    LET c == _cleanup(w, t)
    IN  IF Len(c._requests) < c.max_requests
        THEN [limiter |-> [c EXCEPT !._requests = Append(@, t)], ok |-> TRUE]
        ELSE [limiter |-> c, ok |-> FALSE]

\* The frame of test_rate_limiter_respects_limits: calls of registry.acquire
\* returned, those that returned True, and the call that is running.
IdleTest == [calls |-> 0, acquired |-> 0, call |-> IdleAcquire]

NoSlot == [t |-> 0, before |-> <<>>, ok |-> FALSE, asked |-> FALSE]

LimiterInit ==
    /\ ticks = 0
    /\ limiters = [api \in {"sec_edgar"} |-> TokenBucket(10, 10, ticks)]
    /\ test = IdleTest
    /\ strict = SlidingWindowLimiter(MaxRequests, WindowTicks)
    /\ admissions = <<>>
    /\ last_slot = NoSlot
    /\ _sec_rate_limiter =
           [p \in Procs |-> TokenBucket(SEC_RATE_LIMIT_REQUESTS, SEC_RATE_LIMIT_REQUESTS, ticks)]
    /\ in_flight = [p \in Procs |-> 0]
    /\ requested = [p \in Procs |-> 0]

----------------------------------------------------------------------------
\* Worker transport: call_mcp_server of src/mcp_client.py, one invocation
\* at a time.  Time is counted in whole seconds from the start of the
\* invocation (the pause of 0.05 s after the notification counts as none).
\* The child's standard output is an input: a line arrives while readline
\* is awaited, or nothing arrives for the 5 seconds readline is given, or
\* the stream is at its end.

\* timeout: float = 90.0, which no caller overrides.
DefaultTimeout == 90
\* read_response(expected_id=1, phase_timeout=20.0)
InitializeTimeout == 20
\* timeout=min(remaining, 5.0)
ReadlineTimeout == 5
\* wait_for(process.wait(), timeout=2.0) and wait_for(process.stderr.read(), timeout=1.0)
ExitGrace == 2
StderrTimeout == 1

\* Lines that read_response skipped, counted up to this many.
MaxSkipped == 2
\* The seconds after which a line can arrive while readline is awaited.
LineDelays == {0, 4}

\* A line of the child's output: the id of the JSON object it carries (0:
\* the line holds no JSON object with an id), and whether that object has
\* an "error" key, a "result" key or neither.
Lines == [id : 0..3, body : {"error", "result", "neither"}]

\* The frame of call_mcp_server: where it is, the messages written to the
\* child, the protocol events in order, what it will return and why, the id
\* of the response the returned result was taken from (0: from none), and
\* how the call ended.
IdleConn ==
    [pc |-> "idle", log |-> <<>>, phase_start |-> 0, clock |-> 0, skipped |-> 0,
     payload |-> "none", cause |-> "", taken_from |-> 0, outcome |-> ""]

\* await send_message(msg)
send_message(f, msg) == [f EXCEPT !.log = Append(@, <<"send", msg>>)]

\* A return statement inside the try block: the finally block runs next.
return_payload(f, payload, cause) ==
    [f EXCEPT !.pc = "finally", !.payload = payload, !.cause = cause]

\* What remains of the phase at time t.
remaining(f, phase_timeout, t) == phase_timeout - (t - f.phase_start)

read_response_any_id(f, expected_id, phase_timeout, ev) ==
    CASE ev.kind = "eof" -> [read |-> "EOFError", frame |-> f, line |-> ev.line]
      [] ev.kind = "line" /\ ev.line.id # 0 ->
           [read |-> "response",
            frame |-> [f EXCEPT !.clock = @ + ev.after,
                                !.log = Append(@, <<"recv", ev.line.id>>)],
            line |-> ev.line]
      [] OTHER ->
           LET t == f.clock + (IF ev.kind = "line" THEN ev.after
                               ELSE Min(remaining(f, phase_timeout, f.clock), ReadlineTimeout))
               g == [f EXCEPT !.clock = t,
                              !.skipped = IF ev.kind = "line" THEN Min(@ + 1, MaxSkipped) ELSE @]
           IN  [read |-> IF remaining(g, phase_timeout, t) <= 0 THEN "TimeoutError"
                         ELSE "pending",
                frame |-> g, line |-> ev.line]

\* read_response(expected_id, phase_timeout) from one await of readline to
\* the next, to its return or to the exception it raises.  A line that
\* carries another id, or none, is skipped; after a skipped line or a
\* readline that timed out the loop tests what remains of the phase.
read_response(f, expected_id, phase_timeout, ev) ==
    CASE ev.kind = "eof" -> [read |-> "EOFError", frame |-> f, line |-> ev.line]
      [] ev.kind = "line" /\ ev.line.id = expected_id ->
           [read |-> "response",
            frame |-> [f EXCEPT !.clock = @ + ev.after,
                                !.log = Append(@, <<"recv", ev.line.id>>)],
            line |-> ev.line]
      [] OTHER ->
           LET t == f.clock + (IF ev.kind = "line" THEN ev.after
                               ELSE Min(remaining(f, phase_timeout, f.clock), ReadlineTimeout))
               g == [f EXCEPT !.clock = t,
                              !.skipped = IF ev.kind = "line" THEN Min(@ + 1, MaxSkipped) ELSE @]
           IN  [read |-> IF remaining(g, phase_timeout, t) <= 0 THEN "TimeoutError"
                         ELSE "pending",
                frame |-> g, line |-> ev.line]

\* What the child's output can do while readline is awaited with what
\* remains of the phase.
Events(f, phase_timeout) ==
    {[kind |-> "line", line |-> l, after |-> d] :
        l \in Lines,
        d \in {e \in LineDelays :
                  e < Min(remaining(f, phase_timeout, f.clock), ReadlineTimeout)}}
    \cup {[kind |-> k, line |-> [id |-> 0, body |-> "neither"], after |-> 0] :
             k \in {"silence", "eof"}}

\* The except clauses of call_mcp_server.
except(f, error) ==
    CASE error = "TimeoutError" -> return_payload(f, "error", "timeout")
      [] error = "EOFError" -> return_payload(f, "error", "eof")
      [] OTHER -> return_payload(f, "error", "exception")

\* Phases 2 and 3 after the initialize response: the notification, the
\* pause, the tools/call request.
after_initialize(f, line) ==
    IF line.body = "error"
    THEN return_payload(f, "error", "initialize_error")
    ELSE [send_message(send_message(f, "notifications/initialized"), "tools/call")
             EXCEPT !.pc = "tool", !.phase_start = f.clock]

\* Processing of the tool response.
after_tool(f, line) ==
    CASE line.body = "error" -> return_payload(f, "error", "tool_error")
      [] line.body = "result" ->
           [return_payload(f, "result", "") EXCEPT !.taken_from = line.id]
      [] OTHER -> return_payload(f, "error", "no_result")

\* The phase call_mcp_server is in: the id it expects and the time it allows.
ExpectedId(f) == IF f.pc = "initialize" THEN 1 ELSE 2
PhaseTimeout(f) == IF f.pc = "initialize" THEN InitializeTimeout ELSE DefaultTimeout

\* call_mcp_server from one await of readline to the next or to its finally
\* block.
on_read(f, ev) ==
    LET r == read_response(f, ExpectedId(f), PhaseTimeout(f), ev)
    IN  CASE r.read = "pending" -> r.frame
          [] r.read = "response" ->
               IF f.pc = "initialize" THEN after_initialize(r.frame, r.line)
               ELSE after_tool(r.frame, r.line)
          [] OTHER -> except(r.frame, r.read)

\* The finally block: stdin is closed, the child is given 2 seconds to
\* exit and is killed after them, its stderr is read for up to a second.
\* The calls of process.kill() and process.wait() after the timeout are
\* under no except clause: kill() raises ProcessLookupError when the child
\* has exited by the time it is called.
finally(f, exit, stderr) ==
    CASE exit = "in_time" ->
           [f EXCEPT !.pc = "returned", !.outcome = "payload", !.clock = @ + stderr]
      [] exit = "killed" ->
           [f EXCEPT !.pc = "returned", !.outcome = "payload",
                     !.clock = @ + ExitGrace + stderr]
      [] OTHER ->
           [f EXCEPT !.pc = "returned", !.outcome = "raise", !.clock = @ + ExitGrace]

\* call_mcp_server up to its first await of readline: the test of the
\* server's path (outside the try block), the start of the child and the
\* initialize request.
call_mcp_server(path, spawned) ==
    CASE path = "denied" -> [IdleConn EXCEPT !.pc = "returned", !.outcome = "raise"]
      [] path = "missing" ->
           [IdleConn EXCEPT !.pc = "returned", !.outcome = "payload",
                            !.payload = "error", !.cause = "not_found"]
      [] ~spawned ->
           [IdleConn EXCEPT !.pc = "returned", !.outcome = "payload",
                            !.payload = "error", !.cause = "exception"]
      [] OTHER -> [send_message(IdleConn, "initialize") EXCEPT !.pc = "initialize"]

TransportInit == conn = IdleConn

----------------------------------------------------------------------------
\* RateLimiterRegistry and DailyQuotaTracker
\* (tests/mcp_reliability/rate_limiter.py).  A day is a number; the limiter
\* of an api is asked through acquire_async, whose answer (a token or slot
\* within the timeout, or not) is an input here.

\* Days followed, and the apis the harness asks for in the model.
MaxDays == 1
Asked == {"tavily", "sec_edgar", "unknown"}

\* DailyQuotaTracker(daily_limit) constructed on day date.
DailyQuotaTracker(daily_limit, date) ==
    [daily_limit |-> daily_limit, used |-> 0, reset_date |-> date]

\* DailyQuotaTracker._check_reset
_check_reset(q, date) ==
    IF date # q.reset_date THEN [q EXCEPT !.used = 0, !.reset_date = date] ELSE q

\* DailyQuotaTracker.acquire(count): the tracker afterwards and the value
\* returned.
quota_acquire(q, count, date) ==
    LET r == _check_reset(q, date)
    IN  IF r.used + count <= r.daily_limit
        THEN [quota |-> [r EXCEPT !.used = @ + count], ok |-> TRUE]
        ELSE [quota |-> r, ok |-> FALSE]

\* A registry in which the news-search api has a limiter besides its quota.
_setup_defaults_overlap ==
    [limiters |-> {"sec_edgar", "yahoo_finance", "finnhub", "fred", "reddit", "tavily"},
     quotas |-> [nyt |-> 500, newsapi |-> 100, tavily |-> 33]]

\* RateLimiterRegistry._setup_defaults: the apis that get a limiter, and the
\* daily limit of those that get a quota.
_setup_defaults ==
    [limiters |-> {"sec_edgar", "yahoo_finance", "finnhub", "fred", "reddit"},
     quotas |-> [nyt |-> 500, newsapi |-> 100, tavily |-> 33]]

\* RateLimiterRegistry.acquire(api, timeout) on the quotas qs: the quotas
\* afterwards and the value returned.  in_time is what the api's limiter
\* answers to acquire_async(timeout).
registry_acquire(qs, api, in_time, date) ==
    IF api \in DOMAIN qs
    THEN LET r == quota_acquire(qs[api], 1, date)
             after == [qs EXCEPT ![api] = r.quota]
         IN  IF ~r.ok THEN [quotas |-> after, ok |-> FALSE]
             ELSE IF api \in _setup_defaults.limiters THEN [quotas |-> after, ok |-> in_time]
             ELSE [quotas |-> after, ok |-> TRUE]
    ELSE IF api \in _setup_defaults.limiters THEN [quotas |-> qs, ok |-> in_time]
    ELSE [quotas |-> qs, ok |-> TRUE]

NoAcquire == [api |-> "", ok |-> FALSE, used |-> 0, day |-> 0]

MeteringInit ==
    /\ today = 0
    /\ quotas = [api \in DOMAIN _setup_defaults.quotas |->
                    DailyQuotaTracker(_setup_defaults.quotas[api], today)]
    /\ last_acquire = NoAcquire

----------------------------------------------------------------------------
\* CacheService (mcp-servers/fundamentals-basket/services/cache.py).  Every
\* method runs under the service's lock.  The three lookups have the same
\* body, each on its own map, and so have the three stores, each with its
\* own TTL.

\* config.py, in seconds.
CIK_CACHE_TTL == 86400
FACTS_CACHE_TTL == 3600
COMPANY_INFO_CACHE_TTL == 86400

Hour == 3600

\* Hours followed, and the last hour in which a value is stored.
MaxHours == 25
MaxSetHours == 1

\* The maps of the service and the key followed in each.
Caches == {"cik", "facts", "company_info"}
Key(name) == IF name = "facts" THEN "0000320193" ELSE "AAPL"

\* The TTL set_cik, set_company_facts and set_company_info give an entry
\* (no caller passes a ttl of its own).
Ttl(name) ==
    CASE name = "cik" -> CIK_CACHE_TTL
      [] name = "facts" -> FACTS_CACHE_TTL
      [] OTHER -> COMPANY_INFO_CACHE_TTL

\* CacheEntry(value, ttl=ttl): the timestamp defaults to time.time().
CacheEntry(value, ttl, t) == [value |-> value, timestamp |-> t, ttl |-> ttl]

is_expired_late(e, t) == (t - e.timestamp) > e.ttl

\* CacheEntry.is_expired at time t.
is_expired(e, t) == (t - e.timestamp) >= e.ttl

\* del cache[key]
Del(d, k) == [x \in (DOMAIN d) \ {k} |-> d[x]]

\* What a lookup returns: None, or a value (a one-element sequence here).
None == <<>>

\* get_cik / get_company_facts / get_company_info on their map at time t:
\* the map afterwards and the value returned.
cache_get(cache, key, t) ==
    IF key \in DOMAIN cache /\ ~is_expired(cache[key], t)
    THEN [cache |-> cache, value |-> <<cache[key].value>>]
    ELSE IF key \in DOMAIN cache
    THEN [cache |-> Del(cache, key), value |-> None]
    ELSE [cache |-> cache, value |-> None]

\* set_cik / set_company_facts / set_company_info on their map at time t.
cache_set(cache, key, value, ttl, t) == Put(cache, key, CacheEntry(value, ttl, t))

NoGet == [cache |-> "", found |-> <<>>, at |-> 0, value |-> None]

CacheInit ==
    /\ _cik_cache = [k \in {} |-> 0]
    /\ _facts_cache = [k \in {} |-> 0]
    /\ _company_info_cache = [k \in {} |-> 0]
    /\ wall = 0
    /\ last_get = NoGet

----------------------------------------------------------------------------
\* MCPTestRunner._test_batch (tests/mcp_reliability/test_stress.py).
\* self._test_single(...) makes a coroutine object, which runs nothing until
\* it is awaited; limited_task awaits it inside `async with semaphore`.

\* Largest batch size, number of servers and max_concurrent followed.
MaxBatch == 2
MaxServers == 2
MaxConcurrent == 2

\* TestConfig(batch_size, servers, max_concurrent).
TestConfig(batch_size, n_servers, max_concurrent) ==
    [batch_size |-> batch_size, n_servers |-> n_servers, max_concurrent |-> max_concurrent]

\* The runner before run() is called.
IdleRunner ==
    [pc |-> "idle", config |-> TestConfig(0, 0, 0), tasks |-> <<>>, semaphore |-> 0]

\* _test_batch up to gather: one coroutine object per company and server
\* ("created": not started), then semaphore = asyncio.Semaphore(
\* max_concurrent) and gather() schedules a limited_task for each
\* ("waiting": at `async with semaphore`).
_test_batch(r) ==
    [r EXCEPT !.pc = "gathering",
              !.tasks = [k \in 1..(r.config.batch_size * r.config.n_servers) |-> "waiting"],
              !.semaphore = r.config.max_concurrent]

limited_task_unlimited(r, k) ==
    [r EXCEPT !.tasks[k] = "running", !.semaphore = @ - 1]

\* limited_task k at `async with semaphore`: with a free slot it takes the
\* slot and awaits its coroutine, which starts running; else it stays.
limited_task(r, k) ==
    IF r.semaphore > 0
    THEN [r EXCEPT !.tasks[k] = "running", !.semaphore = @ - 1]
    ELSE r

\* The coroutine of limited_task k returns or raises: the slot is released.
release(r, k) ==
    LET r1 == [r EXCEPT !.tasks[k] = "done", !.semaphore = @ + 1]
    IN  IF \A j \in 1..Len(r1.tasks) : r1.tasks[j] = "done"
        THEN [r1 EXCEPT !.pc = "returned"]
        ELSE r1

RunnerInit == runner = IdleRunner

----------------------------------------------------------------------------
\* Worker processes.  call_mcp_server starts the worker's server.py anew for
\* every invocation; the module global _fetcher_service of that process is
\* None until get_fetcher_service() constructs the FetcherService, with its
\* own breakers and its own bucket.

\* Worker invocations followed, and the requests followed in each.
Invocations == {1, 2}
MaxSent == 6

\* Seconds of uptime followed.
MaxSeconds == 1

\* time.monotonic() in a worker process, in seconds (above 0).
Monotonic(t) == 1 + t \div Hz

\* _fetcher_service = None
NoService ==
    [pc |-> "none", _circuit_breakers |-> NewBreaker(SecConfig, 0),
     _sec_rate_limiter |-> TokenBucket(SEC_RATE_LIMIT_REQUESTS, SEC_RATE_LIMIT_REQUESTS, 0),
     sent |-> 0, rejected |-> 0]

\* FetcherService.__init__ at time t in a process just started.
FetcherService(t) ==
    [NoService EXCEPT
        !.pc = "running",
        !._circuit_breakers = NewBreaker(SecConfig, Monotonic(t)),
        !._sec_rate_limiter = TokenBucket(SEC_RATE_LIMIT_REQUESTS, SEC_RATE_LIMIT_REQUESTS, t)]

\* The first attempt of a call of _fetch_with_retry on service fs at time
\* t: the breaker is asked, a token is taken (acquire_async goes on polling
\* while the bucket has none), the request is sent and its outcome recorded.
attempt(fs, ok, t) ==
    LET r == allow_request(fs._circuit_breakers, Monotonic(t))
        a == acquire(fs._sec_rate_limiter, 1, t)
    IN  IF ~r.allowed
        THEN [fs EXCEPT !._circuit_breakers = r.breaker, !.rejected = @ + 1]
        ELSE IF ~a.ok
        THEN [fs EXCEPT !._circuit_breakers = r.breaker, !._sec_rate_limiter = a.bucket]
        ELSE [fs EXCEPT !._circuit_breakers =
                            IF ok THEN record_success(r.breaker, Monotonic(t))
                            ELSE record_failure(r.breaker, Monotonic(t)),
                        !._sec_rate_limiter = a.bucket,
                        !.sent = @ + 1]

SpawningInit ==
    /\ _fetcher_service = [i \in Invocations |-> NoService]
    /\ uptime = 0

----------------------------------------------------------------------------
\* State

World(t) == [task |-> TASK_STORE[t], frame |-> agg[t], inflight |-> inflight[t], clock |-> now]

\* Every stored record is overwritten with the record of the task that ran.
SetWorld_shared(t, w) ==
    \E v \in {w} :
        /\ TASK_STORE' = [u \in DOMAIN TASK_STORE |-> v.task]
        /\ agg' = [agg EXCEPT ![t] = v.frame]
        /\ inflight' = [inflight EXCEPT ![t] = v.inflight]
        /\ now' = v.clock

\* The coroutine of task t writes back what it worked on: its own record
\* (looked up by task_id), its frame, its outstanding invocations, the clock.
SetWorld(t, w) ==
    \E v \in {w} :
        /\ TASK_STORE' = [TASK_STORE EXCEPT ![t] = v.task]
        /\ agg' = [agg EXCEPT ![t] = v.frame]
        /\ inflight' = [inflight EXCEPT ![t] = v.inflight]
        /\ now' = v.clock

NoResponse ==
    [method |-> "none", id |-> "", code |-> 0, status |-> "", keys |-> {},
     partial_metrics |-> <<>>, artifacts |-> <<>>, error |-> "", updatedAt |-> 0]

NoSnapshot == [taken |-> FALSE, partial_metrics |-> <<>>]

Init ==
    /\ TASK_STORE = [t \in {} |-> 0]
    /\ agg = [t \in PairIds |-> NoFrame]
    /\ inflight = [t \in PairIds |-> {}]
    /\ now = 0
    /\ response = NoResponse
    /\ cancelSnapshot = [t \in PairIds |-> NoSnapshot]
    /\ BreakerInit
    /\ FetcherInit
    /\ WorkerInit
    /\ LimiterInit
    /\ TransportInit
    /\ SpawningInit
    /\ MeteringInit
    /\ CacheInit
    /\ RunnerInit

\* handle_message_send with a parsable message: a fresh id, the task stored
\* in SUBMITTED, the background coroutine scheduled.
Submit(t) ==
    /\ t \notin DOMAIN TASK_STORE
    /\ TASK_STORE' = Put(TASK_STORE, t, NewTask(t, now))
    /\ now' = now + 1
    /\ agg' = [agg EXCEPT ![t].pc = "scheduled"]
    /\ response' = [NoResponse EXCEPT !.method = "message/send", !.id = t, !.status = SUBMITTED]
    /\ UNCHANGED <<inflight, cancelSnapshot>>
    /\ UNCHANGED offService

\* process_research_task from its start to the first await mcp_func().
Start(t) ==
    /\ agg[t].pc = "scheduled"
    /\ \E w \in {World(t)} :
         SetWorld(t, NextIteration([w EXCEPT !.task.status = WORKING,
                                            !.task.updated_at = w.clock,
                                            !.clock = @ + 1,
                                            !.frame.idx = 0],
                                   "ok"))
    /\ response' = NoResponse
    /\ UNCHANGED cancelSnapshot
    /\ UNCHANGED offService

\* The outstanding worker invocation of task t completes with outcome out;
\* fin is the outcome of the post-processing should the loop end here.
WorkerReturn(t, out, fin) ==
    /\ agg[t].pc = "await_call"
    /\ \E w \in {World(t)} :
         LET name == mcp_sequence[w.frame.idx]
             prior == IF w.frame.basket = name THEN w.frame.calls ELSE <<>>
             call == Call(name, Len(prior) + 1)
         IN  /\ call \in inflight[t]
             /\ out \in Outcomes(name)
             /\ SetWorld(t, AfterCall([w EXCEPT !.frame.basket = name,
                                                !.frame.calls = Append(prior, out.kind),
                                                !.inflight = @ \ {call}],
                                      out, fin))
    /\ response' = NoResponse
    /\ UNCHANGED cancelSnapshot
    /\ UNCHANGED offService

\* emit_metric's sleep of task t is over: the next metric of the basket is
\* pushed into the callback, or the loop goes on.
SleepReturn(t, fin) ==
    /\ agg[t].pc = "await_sleep"
    /\ \E w \in {World(t)} :
         IF w.frame.pending > 0
         THEN SetWorld(t, emit_metric([w EXCEPT !.frame.metric_no = @ + 1,
                                                !.frame.pending = @ - 1],
                                      w.frame.metric_no))
         ELSE SetWorld(t, NextIteration(w, fin))
    /\ response' = NoResponse
    /\ UNCHANGED cancelSnapshot
    /\ UNCHANGED offService

\* handle_tasks_get: the response built from the task record.
handle_tasks_get(task) ==
    LET with_metrics == task.partial_metrics # <<>> /\ task.status \in {WORKING, COMPLETED}
        with_artifacts == task.status = COMPLETED /\ task.artifacts # <<>>
        with_error == task.status = FAILED /\ task.error # ""
    IN  [method |-> "tasks/get", id |-> task.id, code |-> 0, status |-> task.status,
         keys |-> (IF with_metrics THEN {"partial_metrics"} ELSE {})
                  \cup (IF with_artifacts THEN {"artifacts"} ELSE {})
                  \cup (IF with_error THEN {"error"} ELSE {}),
         partial_metrics |-> IF with_metrics THEN task.partial_metrics ELSE <<>>,
         artifacts |-> IF with_artifacts THEN task.artifacts ELSE <<>>,
         error |-> IF with_error THEN task.error ELSE "",
         updatedAt |-> task.updated_at]

\* The error response for an id that is not in the store.
NotFoundResponse(method, t) ==
    [NoResponse EXCEPT !.method = method, !.id = t, !.code = TaskNotFound]

\* A request for a task can only follow the response that announced its id,
\* and the scheduled coroutine runs before the server reads another request.
Reachable(t) == t \in DOMAIN TASK_STORE => agg[t].pc # "scheduled"

Get(t) ==
    /\ Reachable(t)
    /\ response' = IF t \in DOMAIN TASK_STORE
                      THEN handle_tasks_get(TASK_STORE[t])
                      ELSE NotFoundResponse("tasks/get", t)
    /\ UNCHANGED <<TASK_STORE, agg, inflight, now, cancelSnapshot>>
    /\ UNCHANGED offService

\* handle_tasks_cancel: the task record after the request.
handle_tasks_cancel(task, clock) ==
    IF task.status \in {SUBMITTED, WORKING}
    THEN [task EXCEPT !.status = CANCELED, !.updated_at = clock]
    ELSE task

Cancel(t) ==
    /\ Reachable(t)
    /\ IF t \in DOMAIN TASK_STORE
       THEN /\ TASK_STORE' = [TASK_STORE EXCEPT ![t] = handle_tasks_cancel(@, now)]
            /\ now' = IF TASK_STORE'[t] # TASK_STORE[t] THEN now + 1 ELSE now
            /\ response' = [NoResponse EXCEPT !.method = "tasks/cancel", !.id = t,
                                              !.status = TASK_STORE'[t].status]
            /\ cancelSnapshot' =
                   IF TASK_STORE[t].status = WORKING
                   THEN [cancelSnapshot EXCEPT ![t] =
                            [taken |-> TRUE, partial_metrics |-> TASK_STORE[t].partial_metrics]]
                   ELSE cancelSnapshot
       ELSE /\ response' = NotFoundResponse("tasks/cancel", t)
            /\ UNCHANGED <<TASK_STORE, now, cancelSnapshot>>
    /\ UNCHANGED <<agg, inflight>>
    /\ UNCHANGED offService

Next ==
    \/ \E t \in TaskIds : Submit(t)
    \/ \E t \in TaskIds : Start(t)
    \/ \E t \in TaskIds : \E out \in AllOutcomes :
           \E fin \in {"ok", "raise"} : WorkerReturn(t, out, fin)
    \/ \E t \in TaskIds : \E fin \in {"ok", "raise"} : SleepReturn(t, fin)
    \/ \E t \in TaskIds : Get(t)
    \/ \E t \in TaskIds : Cancel(t)

Spec == Init /\ [][Next]_vars

\* The background coroutine is an asyncio task: once scheduled it runs, every
\* worker invocation returns (the transport bounds each phase by a deadline
\* and turns its expiry into an error payload), and every sleep ends.
\* One step of the background coroutine of task t.
Run(t) ==
    \/ Start(t)
    \/ \E out \in AllOutcomes : \E fin \in {"ok", "raise"} : WorkerReturn(t, out, fin)
    \/ \E fin \in {"ok", "raise"} : SleepReturn(t, fin)

Fairness == \A t \in TaskIds : WF_vars(Run(t))

FairSpec == Spec /\ Fairness

\* Outcomes of a worker invocation followed in the two-task runs: payloads
\* without an error field.  (The failure branches of the loop touch the
\* frame only, and Spec follows them for one task.)
PairOutcomes == {out \in AllOutcomes : out.kind = "ok"}

\* Two tasks in one server process.  The event loop interleaves the request
\* handlers and the two background coroutines at their awaits.
PairNext ==
    \/ \E t \in PairIds : now < MaxPairClock /\ Submit(t)
    \/ \E t \in PairIds : now < MaxPairClock /\ Start(t)
    \/ \E t \in PairIds : \E out \in PairOutcomes : \E fin \in {"ok", "raise"} :
           now < MaxPairClock /\ WorkerReturn(t, out, fin)
    \/ \E t \in PairIds : \E fin \in {"ok", "raise"} :
           now < MaxPairClock /\ SleepReturn(t, fin)
    \/ \E t \in PairIds : Get(t)
    \/ \E t \in PairIds : now < MaxPairClock /\ Cancel(t)

PairSpec == Init /\ [][PairNext]_vars

----------------------------------------------------------------------------
\* The circuit-breaker registry driven by its callers

\* What the step leaves in lastOp.
Op(name, s, allowed) ==
    [op |-> name, server |-> s, allowed |-> allowed, before |-> breakers[s], at |-> monotonic]

\* Time passes.
Tick ==
    /\ monotonic + Delay <= 1 + MaxTicks * Delay
    /\ monotonic' = monotonic + Delay
    /\ UNCHANGED <<breakers, lastOp, streak, probeSuccesses>>
    /\ UNCHANGED offRegistry

\* registry.allow_request(s)
AllowRequest(s) ==
    /\ \E r \in {allow_request(breakers[s], monotonic)} :
         /\ breakers' = [breakers EXCEPT ![s] = r.breaker]
         /\ lastOp' = Op("allow_request", s, r.allowed)
         /\ probeSuccesses' =
                IF breakers[s].state = OPEN /\ r.breaker.state = HALF_OPEN
                THEN [probeSuccesses EXCEPT ![s] = 0]
                ELSE probeSuccesses
    /\ UNCHANGED <<monotonic, streak>>
    /\ UNCHANGED offRegistry

\* registry.record_success(s)
RecordSuccess(s) ==
    /\ breakers' = [breakers EXCEPT ![s] = record_success(@, monotonic)]
    /\ lastOp' = Op("record_success", s, FALSE)
    /\ streak' = [streak EXCEPT ![s] = 0]
    /\ probeSuccesses' =
           IF breakers[s].state = HALF_OPEN
           THEN [probeSuccesses EXCEPT ![s] = @ + 1]
           ELSE probeSuccesses
    /\ UNCHANGED monotonic
    /\ UNCHANGED offRegistry

\* registry.record_failure(s, error)
RecordFailure(s) ==
    /\ breakers' = [breakers EXCEPT ![s] = record_failure(@, monotonic)]
    /\ lastOp' = Op("record_failure", s, FALSE)
    /\ streak' = [streak EXCEPT ![s] = Min(@ + 1, failure_threshold)]
    /\ UNCHANGED <<monotonic, probeSuccesses>>
    /\ UNCHANGED offRegistry

\* registry.get(s).force_open()
ForceOpen(s) ==
    /\ breakers' = [breakers EXCEPT ![s] = force_open(@, monotonic)]
    /\ lastOp' = Op("force_open", s, FALSE)
    /\ UNCHANGED <<monotonic, streak, probeSuccesses>>
    /\ UNCHANGED offRegistry

\* registry.get(s).force_close()
ForceClose(s) ==
    /\ breakers' = [breakers EXCEPT ![s] = force_close(@, monotonic)]
    /\ lastOp' = Op("force_close", s, FALSE)
    /\ streak' = [streak EXCEPT ![s] = 0]
    /\ UNCHANGED <<monotonic, probeSuccesses>>
    /\ UNCHANGED offRegistry

\* registry.reset_all()
ResetAll ==
    /\ breakers' = [s \in Servers |-> force_close(breakers[s], monotonic)]
    /\ lastOp' = [NoOp EXCEPT !.op = "reset_all", !.at = monotonic]
    /\ streak' = [s \in Servers |-> 0]
    /\ UNCHANGED <<monotonic, probeSuccesses>>
    /\ UNCHANGED offRegistry

BreakerNext ==
    \/ Tick
    \/ \E s \in Exercised : AllowRequest(s)
    \/ \E s \in Exercised : RecordSuccess(s)
    \/ \E s \in Exercised : RecordFailure(s)
    \/ \E s \in Exercised : ForceOpen(s)
    \/ \E s \in Exercised : ForceClose(s)
    \/ ResetAll

BreakerSpec == Init /\ [][BreakerNext]_vars

----------------------------------------------------------------------------
\* Properties

Range(seq) == {seq[i] : i \in 1..Len(seq)}

Terminal(status) == status \in {COMPLETED, FAILED, CANCELED}

Tasks == DOMAIN TASK_STORE

\* Baskets the aggregator of a frame has recorded in either list.
Recorded(f) == Range(f.sources_available) \cup Range(f.sources_failed)

\* Position of a basket in mcp_sequence.
Position(name) == CHOOSE i \in 1..Len(mcp_sequence) : mcp_sequence[i] = name

\* An invocation failed: it returned an error payload or raised.
FailedCall(kind) == kind \in {"error", "raise"}

TypeOK ==
    /\ Tasks \subseteq TaskIds
    /\ \A t \in Tasks :
          TASK_STORE[t].status \in {SUBMITTED, WORKING, COMPLETED, FAILED, CANCELED}

\* C1: once a task's status is terminal, no field of its record changes again.
C1_TerminalTaskFrozen ==
    [][\A t \in Tasks :
          Terminal(TASK_STORE[t].status) => TASK_STORE'[t] = TASK_STORE[t]]_vars

\* C2: a cancel that hits a WORKING task makes its status CANCELED, and from
\* then on no step appends a progress event to its partial_metrics.
C2_CancelStopsProgress ==
    [][\A t \in Tasks :
          /\ (TASK_STORE[t].status = WORKING /\ Cancel(t)) => TASK_STORE'[t].status = CANCELED
          /\ cancelSnapshot[t].taken =>
                TASK_STORE'[t].partial_metrics = TASK_STORE[t].partial_metrics]_vars

\* C2 witness: after a cancel on a WORKING task the run went on, a basket that
\* always emits an event succeeded, and its event is not in partial_metrics.
C2_Witness ==
    \E t \in Tasks :
        /\ cancelSnapshot[t].taken
        /\ "news" \in Range(agg[t].sources_available)
        /\ \A i \in 1..Len(TASK_STORE[t].partial_metrics) :
              TASK_STORE[t].partial_metrics[i].source # "news"
        /\ cancelSnapshot[t].partial_metrics # <<>>

\* C3: once a task is CANCELED its aggregator starts no further basket: no
\* first invocation of a basket begins while the status is CANCELED.
C3_NoWorkerAfterCancel ==
    [][\A t \in Tasks :
          TASK_STORE[t].status = CANCELED =>
              \A c \in inflight'[t] \ inflight[t] : c.attempt # 1]_vars

\* C4: after a cancel on a WORKING task every tasks/get answers CANCELED with
\* partial_metrics equal to the events emitted before the cancel and without
\* an artifacts field.
C4_GetAfterCancel ==
    [][\A t \in Tasks :
          (cancelSnapshot[t].taken /\ Get(t)) =>
              /\ response'.status = CANCELED
              /\ response'.partial_metrics = cancelSnapshot[t].partial_metrics
              /\ "artifacts" \notin response'.keys]_vars

\* An artifact records every basket exactly once, in one of its two lists.
WellPartitioned(a) ==
    /\ Len(a.sources_available) + Len(a.sources_failed) = Len(mcp_sequence)
    /\ Range(a.sources_available) \cap Range(a.sources_failed) = {}
    /\ Range(a.sources_available) \cup Range(a.sources_failed) = Baskets

\* C5: in every artifact len(sources_available) + len(sources_failed) = 6 and
\* the two lists are disjoint, so each basket is recorded exactly once.
C5_SourcesPartition ==
    \A t \in Tasks :
        \A i \in 1..Len(TASK_STORE[t].artifacts) : WellPartitioned(TASK_STORE[t].artifacts[i])

\* C5 witness: an artifact with baskets in both lists, produced by a run whose
\* last basket saw an error payload, then an exception, then a third result.
C5_Witness ==
    \E t \in Tasks :
        /\ TASK_STORE[t].artifacts # <<>>
        /\ TASK_STORE[t].artifacts[1].sources_available # <<>>
        /\ TASK_STORE[t].artifacts[1].sources_failed # <<>>
        /\ Len(agg[t].calls) = 3
        /\ agg[t].calls[2] = "raise"

C7_AtMostTwoInvocations ==
    \A t \in Tasks :
        /\ Len(agg[t].calls) <= 2
        /\ \A c \in inflight[t] : c.attempt <= 2
        /\ Len(agg[t].calls) >= 2 => FailedCall(agg[t].calls[1])

\* C8: a basket is in sources_failed exactly when its first invocation and
\* its retry both failed, and then its metrics entry is the last error object
\* with retried: true; in every other case it is in sources_available.
C8_FailedIffBothAttemptsFailed ==
    \A t \in Tasks :
        LET f == agg[t]
            both == Len(f.calls) >= 2 /\ FailedCall(f.calls[1]) /\ FailedCall(f.calls[2])
        IN  f.basket \in Recorded(f) =>
                /\ f.basket \in Range(f.sources_failed) <=> both
                /\ f.basket \in Range(f.sources_failed) =>
                       /\ f.metrics[f.basket] = Entry("error", TRUE)
                       /\ f.stored = Len(f.calls)
                /\ ~both => f.basket \in Range(f.sources_available)

\* C9: workers are invoked in the order of mcp_sequence and one at a time: at
\* most one invocation of a task is outstanding, and while an invocation of a
\* basket is outstanding exactly the baskets before it have been recorded.
C9_SequentialInOrder ==
    \A t \in TaskIds :
        /\ Cardinality(inflight[t]) <= 1
        /\ \A c \in inflight[t] :
              Recorded(agg[t]) = {mcp_sequence[j] : j \in 1..(Position(c.basket) - 1)}
        /\ agg[t].sources_available \o agg[t].sources_failed # <<>> =>
              \A b \in Recorded(agg[t]) : Position(b) <= agg[t].idx

\* C9 witness: the third invocation of the last basket is outstanding after
\* the five baskets before it were recorded.
C9_Witness ==
    \E t \in TaskIds :
        /\ inflight[t] = {Call(mcp_sequence[Len(mcp_sequence)], 3)}
        /\ Len(agg[t].sources_available) + Len(agg[t].sources_failed) = Len(mcp_sequence) - 1

----------------------------------------------------------------------------
\* The fetcher's SEC EDGAR calls

\* _load_company_tickers after its fetch ended: the table, or {} when the
\* fetch raised.
TickersAfter(f) ==
    IF f.endpoint = "company_tickers" /\ f.pc = "idle"
    THEN IF f.result = "data" THEN "loaded" ELSE "empty"
    ELSE company_tickers

\* A call of _fetch_with_retry begins: the breaker is consulted.  The table
\* is fetched once, under a lock; company facts are fetched for a ticker
\* the table maps to a CIK.
FetchStart(c, endpoint) ==
    /\ fetches[c].pc = "idle"
    /\ started < MaxFetches
    /\ IF endpoint = "company_tickers"
       THEN company_tickers = "None"
            /\ \A d \in Slots : fetches[d].pc = "idle" \/ fetches[d].endpoint # endpoint
       ELSE company_tickers = "loaded"
    /\ \E r \in {allow_request(sec_edgar, monotonic)} :
         \E f \in {IF r.allowed
                   THEN [IdleFetch EXCEPT !.pc = "request", !.endpoint = endpoint]
                   ELSE CircuitOpenError([IdleFetch EXCEPT !.endpoint = endpoint],
                                         r.breaker)} :
           /\ sec_edgar' = r.breaker
           /\ fetches' = [fetches EXCEPT ![c] = f]
           /\ company_tickers' = TickersAfter(f)
    /\ started' = started + 1
    /\ UNCHANGED <<monotonic, xbrl503, factsFailures, lookupFailures>>
    /\ UNCHANGED offFetcher

\* The attempt of call c is answered.
Reply(c, reply) ==
    /\ fetches[c].pc = "request"
    /\ \E r \in {_fetch_with_retry(fetches[c], sec_edgar, reply, monotonic)} :
         /\ sec_edgar' = r.breaker
         /\ fetches' = [fetches EXCEPT ![c] = r.frame]
         /\ company_tickers' = TickersAfter(r.frame)
         /\ factsFailures' =
                IF r.frame.endpoint = "company_facts" /\ r.frame.pc = "idle"
                   /\ r.frame.result # "data"
                THEN factsFailures + 1
                ELSE factsFailures
         /\ lookupFailures' =
                IF r.frame.endpoint = "company_tickers"
                THEN r.frame.failures
                ELSE lookupFailures
    /\ xbrl503' = (xbrl503 /\ (fetches[c].endpoint = "company_facts"
                                  => reply.kind = "status" /\ reply.code = 503))
    /\ UNCHANGED <<monotonic, started>>
    /\ UNCHANGED offFetcher

\* The sleep of call c is over: the next attempt begins.
Wake(c) ==
    /\ fetches[c].pc = "sleep"
    /\ monotonic' = Max(monotonic, fetches[c].wake)
    /\ fetches' = [fetches EXCEPT ![c].pc = "request", ![c].attempt = @ + 1]
    /\ UNCHANGED <<sec_edgar, company_tickers, started, xbrl503, factsFailures, lookupFailures>>
    /\ UNCHANGED offFetcher

\* Nothing is asked of the fetcher for the breaker's half-open timeout.
Pause ==
    /\ monotonic + SEC_CB_HALF_OPEN_TIMEOUT <= MaxUptime
    /\ monotonic' = monotonic + SEC_CB_HALF_OPEN_TIMEOUT
    /\ UNCHANGED <<sec_edgar, company_tickers, fetches, started, xbrl503, factsFailures,
                   lookupFailures>>
    /\ UNCHANGED offFetcher

FetcherNext ==
    \/ \E c \in Slots : \E endpoint \in {"company_tickers", "company_facts"} :
           FetchStart(c, endpoint)
    \/ \E c \in Slots : \E reply \in Replies : Reply(c, reply)
    \/ \E c \in Slots : Wake(c)
    \/ Pause

FetcherSpec == Init /\ [][FetcherNext]_vars

----------------------------------------------------------------------------
\* One tool call of a basket worker

\* The answers a fetch guarded by breaker b can give.
Answers(b) == IF b \in rejecting THEN {FALSE} ELSE BOOLEAN

\* A tool is called; rej are the breakers of the fetcher that are OPEN and
\* stay so for the call, cached is what the cache holds for the ticker.
Begin(tool, rej, cached) ==
    /\ tool_call.pc \in {"idle", "done", "timed_out"}
    /\ tool_call' = start(tool, IF tool \in FundamentalsTools THEN cached ELSE {})
    /\ rejecting' = IF tool \in FundamentalsTools THEN rej ELSE {}
    /\ UNCHANGED offWorker

\* fetch_cik answers: the ticker has a CIK or not.  When the table cannot
\* be loaded the fetcher reports no CIK.
LookupReturn(match) ==
    /\ tool_call.pc = "running" /\ tool_call.lookup = "fetch"
    /\ match \in Answers("sec_edgar")
    /\ tool_call' = IF match
               THEN resume(_get_facts_with_cache([tool_call EXCEPT !.lookup = "match"]))
               ELSE resume([tool_call EXCEPT !.lookup = "none"])
    /\ UNCHANGED rejecting
    /\ UNCHANGED offWorker

\* fetch_company_facts answers: facts the tool builds its result from, or
\* none.
FactsReturn(ok) ==
    /\ tool_call.pc = "running" /\ tool_call.facts = "fetch"
    /\ ok \in Answers("sec_edgar")
    /\ tool_call' = resume([tool_call EXCEPT !.facts = IF ok THEN "ok" ELSE "failed"])
    /\ UNCHANGED rejecting
    /\ UNCHANGED offWorker

\* The quote service (fetch_yfinance, fetch_yahoo_quote) answers.
QuoteReturn(ok) ==
    /\ tool_call.pc = "running"
    /\ ok \in (IF tool_call.tool \in FundamentalsTools THEN Answers("yahoo_finance") ELSE BOOLEAN)
    /\ \/ /\ tool_call.quote = "fetch"
          /\ tool_call' = resume([tool_call EXCEPT !.quote = IF ok THEN "ok" ELSE "failed"])
       \/ /\ tool_call.refetch = "fetch"
          /\ tool_call' = resume([tool_call EXCEPT !.refetch = IF ok THEN "ok" ELSE "failed"])
    /\ UNCHANGED rejecting
    /\ UNCHANGED offWorker

\* The overview service (fetch_alpha_vantage_quote) answers.
OverviewReturn(ok) ==
    /\ tool_call.pc = "running" /\ tool_call.overview = "fetch"
    /\ tool_call' = resume([tool_call EXCEPT !.overview = IF ok THEN "ok" ELSE "failed"])
    /\ UNCHANGED rejecting
    /\ UNCHANGED offWorker

\* execute_tool of the fundamentals worker: TOOL_TIMEOUT expires while the
\* tool is waiting.
ToolTimeout ==
    /\ tool_call.pc = "running" /\ tool_call.tool \in FundamentalsTools
    /\ tool_call' = [tool_call EXCEPT !.pc = "timed_out", !.payload = Payload(TRUE, {}, "")]
    /\ UNCHANGED rejecting
    /\ UNCHANGED offWorker

WorkerNext ==
    \/ \E tool \in Tools : \E rej \in SUBSET FetcherBreakers :
           \E cached \in SUBSET {"cik", "facts"} : Begin(tool, rej, cached)
    \/ \E match \in BOOLEAN : LookupReturn(match)
    \/ \E ok \in BOOLEAN : FactsReturn(ok)
    \/ \E ok \in BOOLEAN : QuoteReturn(ok)
    \/ \E ok \in BOOLEAN : OverviewReturn(ok)
    \/ ToolTimeout

WorkerSpec == Init /\ [][WorkerNext]_vars

----------------------------------------------------------------------------
\* test_rate_limiter_respects_limits on the registry's sec_edgar bucket

\* registry.acquire("sec_edgar", timeout=0.1) got as far as r: the test's
\* frame once the call has returned or sleeps.
for_loop(tst, r) ==
    IF r.frame.pc = "idle"
    THEN [calls |-> tst.calls + 1,
          acquired |-> tst.acquired + (IF r.frame.result THEN 1 ELSE 0),
          call |-> IdleAcquire]
    ELSE [tst EXCEPT !.call = r.frame]

\* The next iteration of the test's loop calls registry.acquire.
TestCall ==
    /\ test.call.pc = "idle"
    /\ test.calls < TestCalls
    /\ \E r \in {acquire_async([IdleAcquire EXCEPT !.start = ticks],
                               limiters["sec_edgar"], 1, TestTimeout, ticks)} :
         /\ limiters' = [limiters EXCEPT !["sec_edgar"] = r.bucket]
         /\ test' = for_loop(test, r)
    /\ UNCHANGED <<ticks, strict, admissions, last_slot, _sec_rate_limiter, in_flight,
                   requested>>
    /\ UNCHANGED offLimiting

\* The sleep of acquire_async is over, on time or late by over ticks.
TestWake(over) ==
    /\ test.call.pc = "sleep"
    /\ ticks' = test.call.wake + over
    /\ \E r \in {acquire_async(test.call, limiters["sec_edgar"], 1, TestTimeout,
                               test.call.wake + over)} :
         /\ limiters' = [limiters EXCEPT !["sec_edgar"] = r.bucket]
         /\ test' = for_loop(test, r)
    /\ UNCHANGED <<strict, admissions, last_slot, _sec_rate_limiter, in_flight, requested>>
    /\ UNCHANGED offLimiting

BucketNext ==
    \/ TestCall
    \/ \E over \in 0..MaxOvershoot : TestWake(over)

BucketSpec == Init /\ [][BucketNext]_vars

----------------------------------------------------------------------------
\* A sliding-window limiter and its callers

\* Some caller calls acquire().
SlotAcquire ==
    /\ Len(admissions) < MaxAdmissions
    /\ \E r \in {acquire_slot(strict, ticks)} :
         /\ strict' = r.limiter
         /\ admissions' = IF r.ok THEN Append(admissions, ticks) ELSE admissions
         /\ last_slot' = [t |-> ticks, before |-> strict._requests, ok |-> r.ok,
                          asked |-> TRUE]
    /\ UNCHANGED <<ticks, limiters, test, _sec_rate_limiter, in_flight, requested>>
    /\ UNCHANGED offLimiting

\* Time passes between two calls.
WindowElapse(d) ==
    /\ ticks + d <= MaxWindowClock
    /\ ticks' = ticks + d
    /\ UNCHANGED <<limiters, test, strict, admissions, last_slot, _sec_rate_limiter,
                   in_flight, requested>>
    /\ UNCHANGED offLimiting

WindowNext ==
    \/ SlotAcquire
    \/ \E d \in 1..2 : WindowElapse(d)

WindowSpec == Init /\ [][WindowNext]_vars

----------------------------------------------------------------------------
\* The SEC EDGAR requests of the fundamentals worker processes that run at
\* the same time.  call_mcp_server starts one process per worker invocation
\* and every process constructs its own FetcherService, hence its own
\* bucket.

\* A call of _fetch_with_retry in process p asks the bucket for a token
\* (one poll of acquire_async); with the token it sends its request.
RequestStart(p) ==
    /\ requested[1] + requested[2] < MaxStarted
    /\ \E r \in {acquire(_sec_rate_limiter[p], 1, ticks)} :
         /\ _sec_rate_limiter' = [_sec_rate_limiter EXCEPT ![p] = r.bucket]
         /\ in_flight' = [in_flight EXCEPT ![p] = IF r.ok THEN @ + 1 ELSE @]
         /\ requested' = [requested EXCEPT ![p] = IF r.ok THEN @ + 1 ELSE @]
    /\ UNCHANGED <<ticks, limiters, test, strict, admissions, last_slot>>
    /\ UNCHANGED offLimiting

\* A request of process p is answered or times out.
Response(p) ==
    /\ in_flight[p] > 0
    /\ in_flight' = [in_flight EXCEPT ![p] = @ - 1]
    /\ UNCHANGED <<ticks, limiters, test, strict, admissions, last_slot, _sec_rate_limiter,
                   requested>>
    /\ UNCHANGED offLimiting

\* A tenth of a second passes.
Tenth ==
    /\ ticks + Hz \div 10 <= MaxTenths * (Hz \div 10)
    /\ ticks' = ticks + Hz \div 10
    /\ UNCHANGED <<limiters, test, strict, admissions, last_slot, _sec_rate_limiter,
                   in_flight, requested>>
    /\ UNCHANGED offLimiting

ProcessesNext ==
    \/ \E p \in Procs : RequestStart(p)
    \/ \E p \in Procs : Response(p)
    \/ Tenth

ProcessesSpec == Init /\ [][ProcessesNext]_vars

----------------------------------------------------------------------------
\* One worker invocation over the child-process transport

\* The aggregator invokes a worker.
Invoke(path, spawned) ==
    /\ conn.pc \in {"idle", "returned"}
    /\ conn' = call_mcp_server(path, spawned)
    /\ UNCHANGED offTransport

\* The awaited readline returns a line, times out, or is at the end of the
\* stream.
Readline(ev) ==
    /\ conn.pc \in {"initialize", "tool"}
    /\ ev \in Events(conn, PhaseTimeout(conn))
    /\ conn' = on_read(conn, ev)
    /\ UNCHANGED offTransport

\* A write to the child or the read of its output raises (a broken pipe).
Broken ==
    /\ conn.pc \in {"initialize", "tool"}
    /\ conn' = except(conn, "Exception")
    /\ UNCHANGED offTransport

\* The finally block runs.
Cleanup(exit, stderr) ==
    /\ conn.pc = "finally"
    /\ conn' = finally(conn, exit, stderr)
    /\ UNCHANGED offTransport

TransportNext ==
    \/ \E path \in {"found", "missing", "denied"} : \E spawned \in BOOLEAN :
           Invoke(path, spawned)
    \/ \E ev \in [kind : {"line", "silence", "eof"}, line : Lines, after : LineDelays] :
           Readline(ev)
    \/ Broken
    \/ \E exit \in {"in_time", "killed", "exited_at_timeout"} :
           \E stderr \in 0..StderrTimeout : Cleanup(exit, stderr)

TransportSpec == Init /\ [][TransportNext]_vars

----------------------------------------------------------------------------
\* Worker processes of several invocations

\* call_mcp_server starts the process of invocation i, and the tool's first
\* use of get_fetcher_service() constructs its FetcherService.
Spawn(i) ==
    /\ _fetcher_service[i].pc = "none"
    /\ _fetcher_service' = [_fetcher_service EXCEPT ![i] = FetcherService(uptime)]
    /\ UNCHANGED uptime
    /\ UNCHANGED offSpawning

\* The tool of invocation i calls _fetch_with_retry, which makes its first
\* attempt.
Attempt(i, ok) ==
    /\ _fetcher_service[i].pc = "running"
    /\ _fetcher_service[i].sent + _fetcher_service[i].rejected < MaxSent
    /\ _fetcher_service' = [_fetcher_service EXCEPT ![i] = attempt(@, ok, uptime)]
    /\ UNCHANGED uptime
    /\ UNCHANGED offSpawning

\* The tool call of invocation i is over: stdin is closed and the process
\* exits (its state is kept here as it was left).
Exit(i) ==
    /\ _fetcher_service[i].pc = "running"
    /\ _fetcher_service' = [_fetcher_service EXCEPT ![i].pc = "exited"]
    /\ UNCHANGED uptime
    /\ UNCHANGED offSpawning

\* A second passes.
Second ==
    /\ uptime + Hz <= MaxSeconds * Hz
    /\ uptime' = uptime + Hz
    /\ UNCHANGED _fetcher_service
    /\ UNCHANGED offSpawning

SpawningNext ==
    \/ \E i \in Invocations : Spawn(i)
    \/ \E i \in Invocations : \E ok \in BOOLEAN : Attempt(i, ok)
    \/ \E i \in Invocations : Exit(i)
    \/ Second

SpawningSpec == Init /\ [][SpawningNext]_vars

----------------------------------------------------------------------------
\* The registry's daily quotas driven by the harness

\* await registry.acquire(api)
RegistryAcquire(api, in_time) ==
    /\ \E r \in {registry_acquire(quotas, api, in_time, today)} :
         /\ quotas' = r.quotas
         /\ last_acquire' =
                [api |-> api, ok |-> r.ok, day |-> today,
                 used |-> IF api \in DOMAIN quotas THEN quotas[api].used ELSE 0]
    /\ UNCHANGED today
    /\ UNCHANGED offMetering

\* The calendar day changes.
Midnight ==
    /\ today < MaxDays
    /\ today' = today + 1
    /\ UNCHANGED <<quotas, last_acquire>>
    /\ UNCHANGED offMetering

MeteringNext ==
    \/ \E api \in Asked : \E in_time \in BOOLEAN : RegistryAcquire(api, in_time)
    \/ Midnight

MeteringSpec == Init /\ [][MeteringNext]_vars

----------------------------------------------------------------------------
\* The cache of a worker driven by its tools

\* The map of the given name, and the three maps with that one replaced.
Map(name) ==
    CASE name = "cik" -> _cik_cache
      [] name = "facts" -> _facts_cache
      [] OTHER -> _company_info_cache

SetMap(name, cache) ==
    /\ _cik_cache' = IF name = "cik" THEN cache ELSE _cik_cache
    /\ _facts_cache' = IF name = "facts" THEN cache ELSE _facts_cache
    /\ _company_info_cache' = IF name = "company_info" THEN cache ELSE _company_info_cache

\* await cache.get_cik(ticker), get_company_facts(cik) or
\* get_company_info(ticker)
CacheGet(name) ==
    /\ \E r \in {cache_get(Map(name), Key(name), wall)} :
         /\ SetMap(name, r.cache)
         /\ last_get' =
                [cache |-> name, at |-> wall, value |-> r.value,
                 found |-> IF Key(name) \in DOMAIN Map(name)
                           THEN <<Map(name)[Key(name)]>> ELSE <<>>]
    /\ UNCHANGED wall
    /\ UNCHANGED offCaching

\* await cache.set_cik(ticker, cik), set_company_facts(cik, facts) or
\* set_company_info(ticker, info); the value stored is told apart by the
\* time it was stored at.
CacheSet(name) ==
    /\ wall <= MaxSetHours * Hour
    /\ SetMap(name, cache_set(Map(name), Key(name), wall, Ttl(name), wall))
    /\ last_get' = NoGet
    /\ UNCHANGED wall
    /\ UNCHANGED offCaching

\* An hour passes.
HourPasses ==
    /\ wall + Hour <= MaxHours * Hour
    /\ wall' = wall + Hour
    /\ UNCHANGED <<_cik_cache, _facts_cache, _company_info_cache, last_get>>
    /\ UNCHANGED offCaching

CacheNext ==
    \/ \E name \in Caches : CacheGet(name)
    \/ \E name \in Caches : CacheSet(name)
    \/ HourPasses

CacheSpec == Init /\ [][CacheNext]_vars

----------------------------------------------------------------------------
\* The stress harness

\* MCPTestRunner(config).run(): the companies are sampled and _test_batch
\* runs to its gather.
Run_batch(batch_size, n_servers, max_concurrent) ==
    /\ runner.pc \in {"idle", "returned"}
    /\ runner' = _test_batch([IdleRunner EXCEPT
                                 !.config = TestConfig(batch_size, n_servers, max_concurrent)])
    /\ UNCHANGED offRunner

\* limited_task k gets to run.
Enter(k) ==
    /\ runner.pc = "gathering"
    /\ k \in 1..Len(runner.tasks)
    /\ runner.tasks[k] = "waiting"
    /\ runner' = limited_task(runner, k)
    /\ runner' # runner
    /\ UNCHANGED offRunner

\* _test_single of limited_task k ends (a result, or an exception).
Leave(k) ==
    /\ runner.pc = "gathering"
    /\ k \in 1..Len(runner.tasks)
    /\ runner.tasks[k] = "running"
    /\ runner' = release(runner, k)
    /\ UNCHANGED offRunner

RunnerNext ==
    \/ \E b \in 1..MaxBatch : \E n \in 1..MaxServers : \E m \in 1..MaxConcurrent :
           Run_batch(b, n, m)
    \/ \E k \in 1..(MaxBatch * MaxServers) : Enter(k)
    \/ \E k \in 1..(MaxBatch * MaxServers) : Leave(k)

RunnerSpec == Init /\ [][RunnerNext]_vars

----------------------------------------------------------------------------
\* Basket worker claims

\* The tools that answer with a "sources" map.
AllSourcesTools == {"get_all_sources_fundamentals", "get_all_sources_valuation"}

\* The tools that walk a fallback chain.
ChainTools == {"get_sec_fundamentals", "get_full_valuation_basket", "get_all_sources_valuation"}

\* A "source" field that marks a minimal-fallback entry.
MinimalSources == {"Minimal Fallback", "Historical Average (estimated)"}

\* Every provider of the tool's basket has failed.
AllProvidersFailed(c) ==
    IF c.tool \in FundamentalsTools
    THEN sec_failed(c) /\ (c.quote = "failed" \/ c.refetch = "failed")
    ELSE c.quote = "failed" /\ c.overview = "failed"

Keys(p) == {e.key : e \in p.sources}

\* C11: every basket result a worker returns has a non-empty sources map;
\* when every provider of the basket failed, the map holds exactly one
\* entry, a minimal-fallback entry (its source field begins with "Minimal
\* Fallback" or "Historical Average").
C11_SourcesNeverEmpty ==
    (tool_call.pc = "done" /\ tool_call.tool \in AllSourcesTools)
        => /\ tool_call.payload.sources # {}
           /\ AllProvidersFailed(tool_call)
                => /\ Cardinality(tool_call.payload.sources) = 1
                   /\ \A e \in tool_call.payload.sources : e.source \in MinimalSources

\* C12: when every breaker of the worker's providers is OPEN, the
\* aggregator counts the basket as failed (so that sources_available is
\* empty and sources_failed lists it) and the result carries a
\* minimal-fallback entry.
C12_AllBreakersOpen ==
    (tool_call.pc = "done" /\ tool_call.tool = "get_all_sources_fundamentals"
     /\ rejecting = FetcherBreakers)
        => /\ is_failure(tool_call.payload)
           /\ \E e \in tool_call.payload.sources : e.source \in MinimalSources

\* C13: for a ticker without a CIK match the all-sources tool of the
\* fundamentals worker, when it runs to its end, returns a result the
\* aggregator does not count as failed, whose only possible source is the
\* quote service; the quote-service entry is there when the quote service
\* answered every fetch.
C13_NoCikFallsBackToQuote ==
    (tool_call.pc = "done" /\ tool_call.tool = "get_all_sources_fundamentals"
     /\ tool_call.lookup = "none")
        => /\ ~is_failure(tool_call.payload)
           /\ Keys(tool_call.payload) \subseteq {"yahoo_finance"}
           /\ (tool_call.quote = "ok" /\ tool_call.refetch # "failed")
                => tool_call.payload.sources = {SourceEntry("yahoo_finance", "Yahoo Finance")}

C13_Witness ==
    /\ tool_call.pc = "done"
    /\ tool_call.tool = "get_all_sources_fundamentals"
    /\ tool_call.lookup = "none"
    /\ rejecting = {}
    /\ tool_call.consulted = <<"identifier_lookup", "quote_service", "quote_service">>
    /\ tool_call.payload.sources = {SourceEntry("yahoo_finance", "Yahoo Finance")}

\* The place of a provider in the declared order of its worker.
Rank(provider) ==
    CASE provider = "identifier_lookup" -> 1
      [] provider = "xbrl" -> 2
      [] provider = "quote_service" -> 3
      [] OTHER -> 4

\* The providers were consulted in the declared order, a later tier only
\* after the tiers before it failed (company facts, which need the CIK,
\* after the lookup found one).
ConsultedInOrder(c) ==
    /\ \A i, j \in 1..Len(c.consulted) :
         i < j => Rank(c.consulted[i]) < Rank(c.consulted[j])
    /\ \A i \in 1..Len(c.consulted) :
         /\ c.consulted[i] = "xbrl" => c.lookup = "match"
         /\ (c.consulted[i] = "quote_service" /\ c.tool \in FundamentalsTools) => sec_failed(c)
         /\ c.consulted[i] = "overview_service" => c.quote = "failed"

\* The tool returned the result of the first tier that answered, and the
\* minimal fallback only when every tier failed.
FirstGoodWins(c) ==
    c.pc = "done" =>
        CASE c.tool = "get_sec_fundamentals" ->
               /\ c.payload.source = "SEC EDGAR XBRL" <=> c.facts = "ok"
               /\ c.payload.source = "Yahoo Finance" <=> (sec_failed(c) /\ c.quote = "ok")
               /\ c.payload.source \in MinimalSources <=> (sec_failed(c) /\ c.quote = "failed")
          [] c.tool = "get_full_valuation_basket" ->
               /\ c.payload.source = "Yahoo Finance (yfinance)" <=> c.quote = "ok"
               /\ c.payload.source = "Alpha Vantage (fallback)"
                      <=> (c.quote = "failed" /\ c.overview = "ok")
               /\ c.payload.source = "Market Averages (estimated)"
                      <=> (c.quote = "failed" /\ c.overview = "failed")
          [] c.tool = "get_all_sources_valuation" ->
               /\ "yahoo_finance" \in Keys(c.payload) <=> c.quote = "ok"
               /\ "alpha_vantage" \in Keys(c.payload)
                      <=> (c.quote = "failed" /\ c.overview = "ok")
          [] OTHER ->
               Cardinality(c.payload.sources) <= 1

----------------------------------------------------------------------------
\* Circuit breaker claims

\* The breaker the last operation acted on, as it is now.  Only an operation
\* changes a breaker, so this is the breaker as the operation left it.
After == breakers[lastOp.server]

OnBreaker == lastOp.op \in {"allow_request", "record_success", "record_failure",
                            "force_open", "force_close"}

\* C15: immediately after every circuit-breaker state transition (CLOSED to
\* OPEN, OPEN to HALF_OPEN, HALF_OPEN to CLOSED, HALF_OPEN to OPEN, forced
\* open or close) both failure_count and success_count are 0.
C15_CountersZeroAfterTransition ==
    (OnBreaker /\ After.state # lastOp.before.state)
        => After.failure_count = 0 /\ After.success_count = 0

\* C16: while a breaker is OPEN a request is rejected, and the breaker left
\* as it was, as long as now - last_failure_time < half_open_timeout; the
\* first request once that time has elapsed moves the breaker to HALF_OPEN
\* and is admitted.
C16_OpenRejectsUntilTimeout ==
    (lastOp.op = "allow_request" /\ lastOp.before.state = OPEN)
        => IF lastOp.at - lastOp.before.last_failure_time < half_open_timeout
           THEN ~lastOp.allowed /\ After = lastOp.before
           ELSE lastOp.allowed /\ After.state = HALF_OPEN

C16_Witness ==
    /\ lastOp.op = "allow_request"
    /\ lastOp.before.state = OPEN
    /\ lastOp.at - lastOp.before.last_failure_time = half_open_timeout
    /\ lastOp.allowed
    /\ After.state = HALF_OPEN

\* C17: in HALF_OPEN a recorded success closes the breaker exactly when it
\* is the success_threshold-th success recorded since the breaker entered
\* HALF_OPEN (and leaves it HALF_OPEN otherwise), and a recorded failure
\* re-OPENs it.
C17_HalfOpenClosesAtThreshold ==
    /\ \A s \in Servers :
         breakers[s].state = HALF_OPEN => probeSuccesses[s] < success_threshold
    /\ (lastOp.op = "record_success" /\ lastOp.before.state = HALF_OPEN)
         => /\ After.state \in {CLOSED, HALF_OPEN}
            /\ After.state = CLOSED <=> probeSuccesses[lastOp.server] = success_threshold
    /\ (lastOp.op = "record_failure" /\ lastOp.before.state = HALF_OPEN)
         => After.state = OPEN

C17_Witness ==
    /\ lastOp.op = "record_success"
    /\ lastOp.before.state = HALF_OPEN
    /\ After.state = CLOSED
    /\ probeSuccesses[lastOp.server] = success_threshold

\* C18: from a reset breaker, a recorded failure in CLOSED opens the breaker
\* exactly when failure_count reaches failure_threshold; after a recorded
\* failure that is at least the failure_threshold-th in a row with no
\* success in between the breaker is OPEN, also when it was OPEN before,
\* and open_breakers() lists it.
C18_OpensAtFailureThreshold ==
    /\ (lastOp.op = "record_failure" /\ lastOp.before.state = CLOSED)
         => /\ lastOp.before.failure_count < failure_threshold
            /\ After.failure_count = lastOp.before.failure_count + 1
            /\ After.state = OPEN <=> After.failure_count = failure_threshold
            /\ After.state \in {OPEN, CLOSED}
    /\ (lastOp.op = "record_failure" /\ streak[lastOp.server] >= failure_threshold)
         => /\ After.state = OPEN
            /\ lastOp.server \in open_breakers(breakers)

C18_Witness ==
    /\ lastOp.op = "record_failure"
    /\ lastOp.before.state = OPEN
    /\ lastOp.before.failure_count = failure_threshold
    /\ streak[lastOp.server] >= failure_threshold
    /\ lastOp.server \in open_breakers(breakers)

----------------------------------------------------------------------------
\* Fetcher claims

\* The delays of a call so far are the exponential backoff: 1 s, then 2 s.
Backoff(f) ==
    /\ Len(f.slept) <= RETRY_MAX_ATTEMPTS - 1
    /\ \A i \in 1..Len(f.slept) : f.slept[i] = RETRY_BASE_DELAY * RETRY_EXPONENTIAL_BASE ^ (i - 1)

C22_CircuitOpenBeforeTokenAndRequest ==
    [][started' = started + 1 =>
          \E c \in Slots :
            /\ fetches[c].pc = "idle"
            /\ IF allow_request(sec_edgar, monotonic).allowed
               THEN fetches'[c].pc = "request" /\ fetches'[c].result = ""
               ELSE /\ fetches'[c].pc = "idle"
                    /\ fetches'[c].result = "CircuitOpenError"
                    /\ fetches'[c].retry_after = SEC_CB_HALF_OPEN_TIMEOUT
                    /\ fetches'[c].acquired = 0
                    /\ fetches'[c].requests = 0
                    /\ fetches'[c].slept = <<>>
                    /\ fetches'[c].failures = 0
                    /\ sec_edgar' = sec_edgar]_vars

C22_Witness ==
    /\ sec_edgar.state = OPEN
    /\ \E c \in Slots :
         /\ fetches[c].endpoint = "company_facts"
         /\ fetches[c].result = "CircuitOpenError"
         /\ fetches[c].retry_after = SEC_CB_HALF_OPEN_TIMEOUT
         /\ fetches[c].acquired = 0
         /\ fetches[c].requests = 0

\* Request i of a call was followed by a sleep and another attempt.
Retried(f, i) == i <= Len(f.slept)

\* The statuses of the 4xx class that are not retried.
ClientErrors == (400..499) \ RETRY_STATUS_CODES

\* What C23 says of one call, given the answers that lead to a retry.
BoundedRetry(f, retryable) ==
    /\ f.requests <= RETRY_MAX_ATTEMPTS
    /\ f.requests = Len(f.statuses)
    /\ Backoff(f)
    /\ \A i \in 1..Len(f.statuses) :
         /\ Retried(f, i) <=> (f.statuses[i] \in retryable /\ i < RETRY_MAX_ATTEMPTS)
         /\ f.statuses[i] \in ClientErrors =>
              /\ i = Len(f.statuses)
              /\ f.pc = "idle"
              /\ f.result = "HTTPStatusError"

\* C23 as stated: a fetcher call sends at most 3 requests; a request is
\* retried only when its response status is in {429, 500, 502, 503, 504},
\* after 1 s and then 2 s; a non-retryable 4xx status ends the call at that
\* attempt with HTTPStatusError.
C23_RetriesOnlyOnStatus ==
    \A c \in Slots : BoundedRetry(fetches[c], RETRY_STATUS_CODES)

\* C23, amended: a fetcher call sends at most 3 requests; a request is
\* retried exactly when attempts remain and either its response status is
\* in {429, 500, 502, 503, 504} or it timed out (status 0 here), after 1 s
\* and then 2 s; a non-retryable 4xx status ends the call at that attempt
\* with HTTPStatusError.
C23_RetriesOnStatusOrTimeout ==
    \A c \in Slots : BoundedRetry(fetches[c], RETRY_STATUS_CODES \cup {0})

C23_Witness ==
    \E c \in Slots :
        /\ fetches[c].statuses = <<429, 0, 404>>
        /\ fetches[c].slept = <<1, 2>>
        /\ fetches[c].result = "HTTPStatusError"

----------------------------------------------------------------------------
\* Rate limiter claims

\* SEC requests in flight, over all worker processes.
InFlight == in_flight[1] + in_flight[2]

\* C21 as stated: at most 10 SEC (XBRL) requests are in flight at any
\* instant, over all worker processes.
C21_AtMostTenInFlight == InFlight <= SEC_RATE_LIMIT_REQUESTS

\* C21, amended: the bucket of a worker process limits the rate at which
\* that process starts requests.  It holds between 0 and 10 tokens, and
\* within t seconds of its start the process has sent at most 10 + 10 t
\* requests through it (10 at one instant).
C21_StartsBoundedPerProcess ==
    \A p \in Procs :
        LET b == _sec_rate_limiter[p]
        IN  /\ 0 <= b.tokens
            /\ b.tokens <= b.capacity * PerToken
            /\ requested[p] * PerToken + b.tokens
                   <= b.capacity * PerToken + (b.last_update * b.rate * PerToken) \div Hz
            /\ b.last_update = 0 => requested[p] <= SEC_RATE_LIMIT_REQUESTS

C21_Witness ==
    /\ ticks = Hz \div 10
    /\ requested[1] = SEC_RATE_LIMIT_REQUESTS + 1
    /\ in_flight[1] = SEC_RATE_LIMIT_REQUESTS + 1
    /\ _sec_rate_limiter[1].tokens = 0

\* C24: the sec_edgar bucket of the registry holds between 0 and 10 tokens
\* and has admitted no more than its capacity plus what was refilled since
\* it was full; the 20 back-to-back calls of acquire with a timeout of
\* 0.1 s that test_rate_limiter_respects_limits makes admit at most 12.
C24_BurstPlusRefill ==
    LET b == limiters["sec_edgar"]
    IN  /\ 0 <= b.tokens
        /\ b.tokens <= b.capacity * PerToken
        /\ test.acquired * PerToken + b.tokens
               <= b.capacity * PerToken + (b.last_update * b.rate * PerToken) \div Hz
        /\ test.calls = TestCalls => test.acquired <= TestTolerance

\* The timestamps of q that are not older than the window at time t.
Recent(q, t) == {k \in 1..Len(q) : q[k] >= t - strict.window_seconds}

\* C25: acquire() admits exactly when fewer than max_requests timestamps
\* of the deque are within the window, and no interval of window_seconds
\* holds more than max_requests admissions.
C25_SlidingWindowAdmission ==
    /\ last_slot.asked =>
         (last_slot.ok <=>
              Cardinality(Recent(last_slot.before, last_slot.t)) < strict.max_requests)
    /\ \A k \in 1..Len(admissions) :
         Cardinality({j \in k..Len(admissions) :
                         admissions[j] <= admissions[k] + strict.window_seconds})
             <= strict.max_requests

C25_Witness ==
    /\ Len(admissions) = MaxAdmissions
    /\ last_slot.ok
    /\ Len(last_slot.before) = MaxRequests
    /\ last_slot.t = last_slot.before[1] + WindowTicks + 1

----------------------------------------------------------------------------
\* Worker transport claims

\* C26: a worker invocation returns within 90 seconds of its start.
C26_ReturnsWithinDeadline ==
    conn.pc = "returned" => conn.clock <= DefaultTimeout

\* The position of event e in the log (0: not in it).
At(e) == IF \E k \in 1..Len(conn.log) : conn.log[k] = e
         THEN CHOOSE k \in 1..Len(conn.log) : conn.log[k] = e
         ELSE 0

\* C27: the tools/call request is written only after the response to
\* initialize (id 1) was received and notifications/initialized was sent,
\* in that order after the initialize request; a returned result is taken
\* from the response with id 2 and from no other line.
C27_HandshakeBeforeToolCall ==
    /\ At(<<"send", "tools/call">>) # 0 =>
         /\ At(<<"send", "initialize">>) = 1
         /\ At(<<"recv", 1>>) = 2
         /\ At(<<"send", "notifications/initialized">>) = 3
         /\ At(<<"send", "tools/call">>) = 4
    /\ \A k \in 1..Len(conn.log) :
         conn.log[k][1] = "recv" => conn.log[k][2] = (IF k = 2 THEN 1 ELSE 2) /\ k \in {2, 5}
    /\ conn.payload = "result" =>
         /\ conn.taken_from = 2
         /\ At(<<"recv", 2>>) = 5
         /\ Len(conn.log) = 5

C27_Witness ==
    /\ conn.pc = "returned"
    /\ conn.payload = "result"
    /\ conn.taken_from = 2
    /\ conn.skipped = MaxSkipped
    /\ Len(conn.log) = 5

\* C28: call_mcp_server never raises: it returns an object, and one with an
\* error field when the worker is missing, a phase timed out, the child
\* closed its output or another exception occurred.
C28_TransportNeverRaises ==
    conn.pc = "returned" =>
        /\ conn.outcome = "payload"
        /\ conn.payload \in {"error", "result"}
        /\ conn.cause \in {"not_found", "timeout", "eof", "exception"} =>
               conn.payload = "error"

----------------------------------------------------------------------------
\* Progress stream claims

\* C29: in every tasks/get response the timestamps of the progress events
\* are non-decreasing in list order and none is later than the updatedAt of
\* the same response.
C29_SnapshotTimestampsOrdered ==
    response.method = "tasks/get" =>
        \A j \in 1..Len(response.partial_metrics) :
            /\ response.partial_metrics[j].timestamp <= response.updatedAt
            /\ \A k \in 1..(j - 1) :
                  response.partial_metrics[k].timestamp
                      <= response.partial_metrics[j].timestamp

C29_Witness ==
    /\ response.method = "tasks/get"
    /\ response.status = WORKING
    /\ Len(response.partial_metrics) >= 2
    /\ response.partial_metrics[1].source # response.partial_metrics[2].source

\* One list is the other with entries added at its end.
Extends(new, old) ==
    /\ Len(new) >= Len(old)
    /\ \A k \in 1..Len(old) : new[k] = old[k]

\* C30: partial_metrics only grows at its end, by the event the aggregator
\* has just emitted for the basket it is at, so the events of a basket come
\* before those of every later basket and none is removed or reordered.
C30_AppendOnlyInAggregatorOrder ==
    /\ [][\A t \in Tasks :
             LET old == TASK_STORE[t].partial_metrics
                 new == TASK_STORE'[t].partial_metrics
             IN  /\ t \in DOMAIN TASK_STORE'
                 /\ Extends(new, old)
                 /\ Len(new) <= Len(old) + 1
                 /\ Len(new) = Len(old) + 1 =>
                        new[Len(new)].source = mcp_sequence[agg[t].idx]]_vars
    /\ [](\A t \in Tasks :
             \A j \in 1..Len(TASK_STORE[t].partial_metrics) :
                 \A k \in 1..(j - 1) :
                     Position(TASK_STORE[t].partial_metrics[k].source)
                         <= Position(TASK_STORE[t].partial_metrics[j].source))

C30_Witness ==
    \E t \in Tasks :
        /\ Len(TASK_STORE[t].partial_metrics) >= 3
        /\ TASK_STORE[t].partial_metrics[1].source = "fundamentals"
        /\ TASK_STORE[t].partial_metrics[Len(TASK_STORE[t].partial_metrics)].source
               = "sentiment"

----------------------------------------------------------------------------
\* Task independence

\* C31: a step changes the record of at most one task.  When a background
\* coroutine changes a record it is the record of the task whose coroutine
\* ran, and a tasks/get or tasks/cancel changes no record but (for a cancel)
\* that of the task it names; no record leaves the table.
C31_TasksIndependent ==
    [][\A t \in Tasks :
          /\ t \in DOMAIN TASK_STORE'
          /\ TASK_STORE'[t] # TASK_STORE[t] =>
                /\ \A u \in Tasks \ {t} : TASK_STORE'[u] = TASK_STORE[u]
                /\ response'.method # "tasks/get"
                /\ response'.method = "tasks/cancel" => response'.id = t
                /\ response'.method = "none" =>
                      /\ agg'[t] # agg[t]
                      /\ \A u \in PairIds \ {t} :
                            agg'[u] = agg[u] /\ inflight'[u] = inflight[u]]_vars

C31_Witness ==
    /\ Tasks = PairIds
    /\ TASK_STORE["t1"].status = WORKING
    /\ TASK_STORE["t1"].partial_metrics # <<>>
    /\ TASK_STORE["t2"].status = CANCELED
    /\ agg["t2"].pc = "await_call"
    /\ TASK_STORE["t2"].updated_at > TASK_STORE["t1"].updated_at

----------------------------------------------------------------------------
\* Breaker gating claims

\* The breaker is OPEN at time t and its half-open timeout has not elapsed.
OpenNotEligible(b, t) ==
    /\ b.state = OPEN
    /\ ~(b.last_failure_time # NoTime /\ t - b.last_failure_time >= b.config.half_open_timeout)

\* C32: no request is sent to SEC EDGAR while the sec_edgar breaker is OPEN
\* and not yet eligible for HALF_OPEN, the later attempts of a call that was
\* admitted before the breaker opened included.
C32_NoRequestWhileOpen ==
    [][\A c \in Slots :
          fetches'[c].requests = fetches[c].requests + 1 =>
              ~OpenNotEligible(sec_edgar, monotonic)]_vars

\* C36: a call that ends because no token came within the limiter's timeout
\* sends no request in that attempt and leaves the sec_edgar breaker as it
\* was (no failure is recorded on it).
C36_RateLimitTimeoutIsLocal ==
    [][\A c \in Slots :
          (fetches[c].pc = "request" /\ fetches'[c].result = "RateLimitError") =>
              /\ fetches'[c].requests = fetches[c].requests
              /\ fetches'[c].acquired = fetches[c].acquired
              /\ sec_edgar' = sec_edgar]_vars

\* C34: a failure recorded while the breaker is OPEN leaves the instant at
\* which the breaker becomes eligible for HALF_OPEN where it was: at every
\* later time allow_request answers as it would have without that failure.
C34_LateFailureKeepsRecovery ==
    (lastOp.op = "record_failure" /\ lastOp.before.state = OPEN) =>
        \A t \in lastOp.at..(lastOp.at + half_open_timeout) :
            allow_request(After, t).allowed = allow_request(lastOp.before, t).allowed

\* C35: allow_request rejects while the breaker is HALF_OPEN and no outcome
\* has been recorded since the probe was admitted.
C35_OneProbeInHalfOpen ==
    (/\ lastOp.op = "allow_request"
     /\ lastOp.before.state = HALF_OPEN
     /\ lastOp.before.success_count = 0) => ~lastOp.allowed

\* C33: the breaker and the bucket of a provider are one instance for all
\* worker invocations: whatever invocations have run or are running, each
\* has the breaker and the bucket the others have, so what one recorded
\* applies to the calls of the next.
C33_OneInstancePerProvider ==
    \A i, j \in Invocations :
        (_fetcher_service[i].pc # "none" /\ _fetcher_service[j].pc # "none") =>
            /\ _fetcher_service[i]._circuit_breakers = _fetcher_service[j]._circuit_breakers
            /\ _fetcher_service[i]._sec_rate_limiter = _fetcher_service[j]._sec_rate_limiter

----------------------------------------------------------------------------
\* Ticker table

\* C37: a load of the ticker -> CIK table that failed leaves no table behind
\* (the table is never the empty map of a failed load), so the next
\* fetch_cik fetches it again.
C37_FailedLoadNotRemembered ==
    /\ company_tickers # "empty"
    /\ \A c \in Slots :
          (fetches[c].endpoint = "company_tickers" /\ fetches[c].pc = "idle"
             /\ fetches[c].result # "data") => company_tickers = "None"

----------------------------------------------------------------------------
\* Daily quota

\* C38: when RateLimiterRegistry.acquire has returned False for an api with
\* a daily quota, the used counter of that quota is what it was before the
\* call.
C38_RefusalKeepsQuota ==
    (last_acquire.api \in DOMAIN quotas /\ ~last_acquire.ok) =>
        quotas[last_acquire.api].used = last_acquire.used

C38_Witness ==
    /\ last_acquire.api = "tavily"
    /\ ~last_acquire.ok
    /\ last_acquire.day = MaxDays
    /\ quotas["tavily"].used = quotas["tavily"].daily_limit
    /\ quotas["tavily"].reset_date = MaxDays

----------------------------------------------------------------------------
\* Cache

\* C39: a lookup returns a value only when it found an entry whose age is
\* strictly less than the TTL of its map (24 h for CIKs and company info,
\* 1 h for company facts), and then the value of that entry; a lookup that
\* found an entry of age TTL or more returns None and leaves the map
\* without it.
C39_LookupHonoursTtl ==
    last_get.cache \in Caches =>
        /\ last_get.value # None =>
              /\ last_get.found # <<>>
              /\ last_get.at - last_get.found[1].timestamp < Ttl(last_get.cache)
              /\ last_get.value = <<last_get.found[1].value>>
        /\ (last_get.found # <<>>
               /\ last_get.at - last_get.found[1].timestamp >= Ttl(last_get.cache)) =>
              /\ last_get.value = None
              /\ Key(last_get.cache) \notin DOMAIN Map(last_get.cache)

C39_Witness ==
    /\ last_get.cache = "cik"
    /\ last_get.found # <<>>
    /\ last_get.at - last_get.found[1].timestamp = CIK_CACHE_TTL
    /\ last_get.value = None
    /\ Key("facts") \in DOMAIN _facts_cache
    /\ wall - _facts_cache[Key("facts")].timestamp >= FACTS_CACHE_TTL

----------------------------------------------------------------------------
\* Stress harness

\* The server/ticker tests executing.
Executing == {k \in 1..Len(runner.tasks) : runner.tasks[k] = "running"}

\* C40: at no time are more than max_concurrent server/ticker tests
\* executing, for every batch size and number of servers.
C40_AtMostMaxConcurrent ==
    /\ Cardinality(Executing) <= runner.config.max_concurrent
    /\ Cardinality(Executing) + runner.semaphore = runner.config.max_concurrent

C40_Witness ==
    /\ runner.config.max_concurrent = MaxConcurrent
    /\ Len(runner.tasks) = MaxBatch * MaxServers
    /\ Cardinality(Executing) = MaxConcurrent
    /\ \E k \in 1..Len(runner.tasks) : runner.tasks[k] = "waiting"
    /\ \E k \in 1..Len(runner.tasks) : runner.tasks[k] = "done"

====
